---- MODULE Spec2Model ----
(***************************************************************************)
(* The az_airdrop vesting ledger (src/az_airdrop/lib.rs), the token sale   *)
(* that allocates on it (src/lib.rs) and the token's burn                  *)
(* (src/az_button/lib.rs) as state machines.                               *)
(* Balance (u128) and Timestamp (u64) are scaled down to                   *)
(* 0..BalanceMax and 0..TimestampMax; every place where the contract       *)
(* converts, adds or subtracts at native width keeps that width, so an     *)
(* overflow is a trap here exactly where it is a panic in the contract.    *)
(* A message that returns Err, or that panics, is reverted by the ink!     *)
(* dispatcher: none of its storage writes and none of its token transfers  *)
(* persist.                                                                *)
(***************************************************************************)
EXTENDS Integers, Sequences, FiniteSets, TLC

\* ------------------------------------------------------------------ bounds
\* Balance::MAX of the model (u128 in the contract).
BalanceMax == 2
\* Timestamp::MAX of the model (u64 in the contract).
TimestampMax == 2
\* The deepest nesting of calls into the contract that is explored.
DepthMax == 2

Accounts == {"alice", "bob", "charlie"}
\* The deployer of the contract (Self::env().caller() in new).
Deployer == "alice"
\* Addresses that are allocated to.
RecipientAddresses == {"bob", "charlie"}
\* Addresses that are offered as sub-admins.
SubAdminCandidates == {"charlie"}
\* Option::None of a numeric argument, and of an AccountId argument.
None == -1
NoAccount == "none"

Balances == 0..BalanceMax
Timestamps == 0..TimestampMax
\* u8 values offered as percentages: 101 stands for the values above 100.
Percentages == {50, 100, 101}

\* A panic (overflow check, as_u128 on a value that does not fit).
Trap == -1

VARIABLES
    admin,
    sub_admins_mapping,
    sub_admins_as_vec,
    to_be_collected,
    start,
    recipients,
    default_collectable_at_tge_percentage,
    default_cliff_duration,
    default_vesting_duration,
    token_balance,
    block_timestamp,
    ever_started,
    queried,
    \* the storage of the token sale contract (src/lib.rs)
    sale,
    \* the native currency (AZERO) balance of every account
    azero,
    \* the psp22::Data of the token contract (src/az_button/lib.rs)
    psp22,
    \* the collect calls suspended at their transfer to the token contract,
    \* outermost first
    in_flight

\* The contract's storage.
storage == <<admin, sub_admins_mapping, sub_admins_as_vec, to_be_collected, start,
             recipients, default_collectable_at_tge_percentage,
             default_cliff_duration, default_vesting_duration>>
vars == <<admin, sub_admins_mapping, sub_admins_as_vec, to_be_collected, start,
          recipients, default_collectable_at_tge_percentage,
          default_cliff_duration, default_vesting_duration,
          token_balance, block_timestamp, ever_started, queried,
          sale, azero, psp22, in_flight>>
\* What the messages of the airdrop contract never touch.
other_contracts == <<sale, azero, psp22, in_flight>>

\* ------------------------------------------------------------- arithmetic
saturating_sub(a, b) == IF a > b THEN a - b ELSE 0
saturating_add(a, b) == IF a + b > BalanceMax THEN BalanceMax ELSE a + b
\* Balance::checked_add: None when the sum does not fit.
checked_add(a, b) == IF a + b > BalanceMax THEN None ELSE a + b
\* U256::as_u128: panics when the value does not fit a Balance.
as_u128(x) == IF x > BalanceMax THEN Trap ELSE x

\* ---------------------------------------------------------------- helpers
Ok == "Ok"
Unauthorised == "Unauthorised"
NotFound == "NotFound"
AirdropHasStarted == "Airdrop has started"
AmountIsZero == "Amount is zero"
InsufficientBalance == "Insufficient balance"
ToBeCollectedOverflow == "Amount will cause to_be_collected to overflow"
AmountGreaterThanTotal == "Amount is greater than recipient's total amount"
PSP22Error == "PSP22Error"
Trapped == "ContractTrapped"

\* ink! reverts a message whose result is Err, and a message that panics:
\* the call leaves no trace in the state.
Reverted(status) == status # Ok

\* Mutant: a schedule below 100% is accepted without a vesting_duration.
validate_airdrop_calculation_variables_without_vesting_rule(st, percentage, cliff, vesting) ==
    IF percentage > 100
    THEN "collectable_at_tge_percentage must be less than or equal to 100"
    ELSE IF percentage = 100 /\ (cliff > 0 \/ vesting > 0)
    THEN "cliff_duration and vesting_duration must be 0 when collectable_tge_percentage is 100"
    ELSE IF st + cliff + vesting > TimestampMax
    THEN "Combination of start, cliff_duration and vesting_duration exceeds limit"
    ELSE Ok

validate_airdrop_calculation_variables(st, percentage, cliff, vesting) ==
    IF percentage > 100
    THEN "collectable_at_tge_percentage must be less than or equal to 100"
    ELSE IF percentage = 100 /\ (cliff > 0 \/ vesting > 0)
    THEN "cliff_duration and vesting_duration must be 0 when collectable_tge_percentage is 100"
    ELSE IF percentage # 100 /\ vesting = 0
    THEN "vesting_duration must be greater than 0 when collectable_tge_percentage is not 100"
    ELSE IF st + cliff + vesting > TimestampMax
    THEN "Combination of start, cliff_duration and vesting_duration exceeds limit"
    ELSE Ok

\* Mutant: the gate closes only after start, not at start.
airdrop_has_not_started_exclusive(now, st) == IF now > st THEN AirdropHasStarted ELSE Ok

airdrop_has_not_started(now, st) == IF now >= st THEN AirdropHasStarted ELSE Ok

\* Mutant: a sub-admin passes the admin check.
authorise_sub_admins_too(allowed, received) ==
    IF allowed # received /\ allowed \notin sub_admins_mapping THEN Unauthorised ELSE Ok

\* Mutant: the deployer stays authorised whoever the admin is.
authorise_deployer_too(allowed, received) ==
    IF allowed # received /\ allowed # Deployer THEN Unauthorised ELSE Ok

authorise(allowed, received) == IF allowed # received THEN Unauthorised ELSE Ok

\* Mutant: the caller is never checked.
authorise_to_update_recipient_anyone(caller) == Ok

authorise_to_update_recipient(caller) ==
    IF caller = admin \/ caller \in sub_admins_mapping THEN Ok ELSE Unauthorised

\* PSP22 transfer out of the contract's own balance.
psp22_transfer(balance, amount) == IF amount > balance THEN PSP22Error ELSE Ok


\* ---------------------------------------------------------------- queries
HasRecipient(address) == address \in DOMAIN recipients

\* The Recipient a first allocation starts from (unwrap_or in add_to_recipient).
NewRecipient ==
    [total_amount |-> 0,
     collected |-> 0,
     collectable_at_tge_percentage |-> default_collectable_at_tge_percentage,
     cliff_duration |-> default_cliff_duration,
     vesting_duration |-> default_vesting_duration]

\* vesting_collectable of collectable_amount: the share of the vesting pool
\* reached at timestamp, or Trap.
vesting_collectable(recipient, collectable_at_tge, vesting_start, timestamp) ==
    IF timestamp >= vesting_start
    THEN IF recipient.total_amount < collectable_at_tge
         THEN Trap
         ELSE as_u128(((timestamp - vesting_start)
                       * (recipient.total_amount - collectable_at_tge))
                      \div recipient.vesting_duration)
    ELSE 0

\* total_collectable_at_time of collectable_amount, before collected is
\* subtracted: the cumulative unlocked amount of the record, or Trap.
total_collectable_at_time(recipient, st, timestamp) ==
    IF timestamp >= st
    THEN LET collectable_at_tge ==
                 as_u128((recipient.collectable_at_tge_percentage
                          * recipient.total_amount) \div 100)
             vesting_start == st + recipient.cliff_duration
             vesting ==
                 IF vesting_start > TimestampMax
                 THEN Trap
                 ELSE vesting_collectable(recipient, collectable_at_tge,
                                          vesting_start, timestamp)
             total ==
                 IF recipient.vesting_duration > 0
                 THEN IF vesting = Trap \/ collectable_at_tge + vesting > BalanceMax
                      THEN Trap
                      ELSE collectable_at_tge + vesting
                 ELSE collectable_at_tge
         IN  IF collectable_at_tge = Trap \/ total = Trap
             THEN Trap
             ELSE IF total > recipient.total_amount
                  THEN recipient.total_amount
                  ELSE total
    ELSE 0

\* Mutant: what was collected before is not taken off.
collectable_amount_of_whole_unlocked(recipient, st, timestamp) ==
    total_collectable_at_time(recipient, st, timestamp)

\* What collectable_amount returns for a record that exists; Trap when the
\* computation panics.
collectable_amount_of(recipient, st, timestamp) ==
    LET total == total_collectable_at_time(recipient, st, timestamp)
    IN  IF total = Trap THEN Trap ELSE saturating_sub(total, recipient.collected)

\* No query has been made yet.
NoQuery == [address |-> NoAccount, timestamp |-> 0, status |-> "none", amount |-> 0]

collectable_amount_status(address, timestamp) ==
    IF ~HasRecipient(address) THEN NotFound
    ELSE IF collectable_amount_of(recipients[address], start, timestamp) = Trap
    THEN Trapped
    ELSE Ok

\* The message collectable_amount(address, timestamp): the caller gets
\* Ok(amount), NotFound or a trap; nothing of the contract changes.
collectable_amount(address, timestamp) ==
    /\ queried' =
           [address |-> address,
            timestamp |-> timestamp,
            status |-> collectable_amount_status(address, timestamp),
            amount |-> IF collectable_amount_status(address, timestamp) = Ok
                       THEN collectable_amount_of(recipients[address], start, timestamp)
                       ELSE 0]
    /\ UNCHANGED <<storage, token_balance, block_timestamp, ever_started,
                   other_contracts>>

\* Mutant: show falls back on a default record, as unwrap_or would.
show_status_unwrap_or_default(address) == Ok

\* What show returns: Ok(recipient), or NotFound when no record is stored.
show_status(address) ==
    IF HasRecipient(address) THEN Ok ELSE NotFound

show_returns(address) ==
    [status |-> show_status(address),
     recipient |-> IF HasRecipient(address) THEN recipients[address] ELSE None]

\* The message show(address): nothing of the contract changes.
show(address) ==
    /\ queried' = [address |-> address] @@ show_returns(address)
    /\ UNCHANGED <<storage, token_balance, block_timestamp, ever_started,
                   other_contracts>>

\* The Config the message config returns (its token field never changes).
config_returns ==
    [admin |-> admin,
     sub_admins |-> sub_admins_as_vec,
     to_be_collected |-> to_be_collected,
     start |-> start,
     default_collectable_at_tge_percentage |->
         default_collectable_at_tge_percentage,
     default_cliff_duration |-> default_cliff_duration,
     default_vesting_duration |-> default_vesting_duration]

\* The message config: nothing of the contract changes.
config_message ==
    /\ queried' = [status |-> Ok, config |-> config_returns]
    /\ UNCHANGED <<storage, token_balance, block_timestamp, ever_started,
                   other_contracts>>

\* What collectable_amount returns.
collectable_amount_returns(address, timestamp) ==
    [status |-> collectable_amount_status(address, timestamp),
     amount |-> IF collectable_amount_status(address, timestamp) = Ok
                THEN collectable_amount_of(recipients[address], start, timestamp)
                ELSE 0]

\* ---------------------------------------------------------------- handles
\* For every message m, m_status is what the call returns (Ok or its error,
\* Trapped for a panic) as a function of the state it is called in, and m is
\* the message as an action.

acquire_token_status(caller, amount, transferred) ==
    IF authorise(caller, admin) # Ok THEN Unauthorised
    ELSE IF airdrop_has_not_started(block_timestamp, start) # Ok THEN AirdropHasStarted
    ELSE IF ~transferred \/ token_balance + amount > BalanceMax THEN PSP22Error
    ELSE Ok

acquire_token(caller, amount, transferred) ==
    IF Reverted(acquire_token_status(caller, amount, transferred))
    THEN UNCHANGED vars
    ELSE /\ token_balance' = token_balance + amount
         /\ UNCHANGED <<storage, block_timestamp, ever_started, queried,
                        other_contracts>>

\* The stored record rebuilt from the current defaults.
recipient_or_new_with_current_defaults(address) ==
    IF HasRecipient(address)
    THEN [NewRecipient EXCEPT !.total_amount = recipients[address].total_amount,
                              !.collected = recipients[address].collected]
    ELSE NewRecipient

\* The record add_to_recipient starts from: the stored one, or NewRecipient.
recipient_or_new(address) ==
    IF HasRecipient(address) THEN recipients[address] ELSE NewRecipient

\* The record add_to_recipient stores and returns in Ok(recipient).
add_to_recipient_recipient(address, amount) ==
    [recipient_or_new(address) EXCEPT !.total_amount = @ + amount]

add_to_recipient_status(caller, address, amount) ==
    IF authorise_to_update_recipient(caller) # Ok THEN Unauthorised
    ELSE IF airdrop_has_not_started(block_timestamp, start) # Ok THEN AirdropHasStarted
    ELSE IF checked_add(amount, to_be_collected) = None THEN ToBeCollectedOverflow
    ELSE IF checked_add(amount, to_be_collected) > token_balance THEN InsufficientBalance
    ELSE IF recipient_or_new(address).total_amount + amount > BalanceMax THEN Trapped
    ELSE Ok

\* The storage writes of an accepted add_to_recipient.
add_to_recipient_writes(address, amount) ==
    /\ recipients' =
           (address :> add_to_recipient_recipient(address, amount))
           @@ recipients
    /\ to_be_collected' = checked_add(amount, to_be_collected)

add_to_recipient(caller, address, amount) ==
    IF Reverted(add_to_recipient_status(caller, address, amount))
    THEN UNCHANGED vars
    ELSE /\ add_to_recipient_writes(address, amount)
         /\ UNCHANGED <<admin, sub_admins_mapping, sub_admins_as_vec, start,
                        default_collectable_at_tge_percentage,
                        default_cliff_duration, default_vesting_duration,
                        token_balance, block_timestamp, ever_started, queried,
                        other_contracts>>

\* The amount collect computes for its caller (who has a record).
collect_amount(caller) ==
    collectable_amount_of(recipients[caller], start, block_timestamp)

collect_status(caller) ==
    IF ~HasRecipient(caller) THEN NotFound
    ELSE IF collect_amount(caller) = Trap THEN Trapped
    ELSE IF collect_amount(caller) = 0 THEN AmountIsZero
    ELSE psp22_transfer(token_balance, collect_amount(caller))

\* collect's two writes after the transfer: the caller's collected and
\* to_be_collected.
\* Mutant: collect forgets to record what it paid.
collected_after_collect_unrecorded(recipient, amount) == recipient.collected

collected_after_collect(recipient, amount) ==
    saturating_add(recipient.collected, amount)

\* Mutant: collect forgets to lower to_be_collected.
to_be_collected_after_collect_stale(amount) == to_be_collected

to_be_collected_after_collect(amount) == saturating_sub(to_be_collected, amount)

\* Mutant: collect has the tokens sent to the admin.
collect_transfer_to_admin(caller) ==
    [to |-> admin, value |-> collect_amount(caller)]

\* The transfer collect has the token contract make: the collectable amount,
\* to the caller.
collect_transfer(caller) ==
    [to |-> caller, value |-> collect_amount(caller)]

collect(caller) ==
    IF Reverted(collect_status(caller))
    THEN UNCHANGED vars
    ELSE /\ token_balance' = token_balance - collect_transfer(caller).value
         /\ recipients' =
                [recipients EXCEPT ![caller].collected =
                     collected_after_collect(recipients[caller], collect_amount(caller))]
         /\ to_be_collected' = to_be_collected_after_collect(collect_amount(caller))
         /\ UNCHANGED <<admin, sub_admins_mapping, sub_admins_as_vec, start,
                        default_collectable_at_tge_percentage,
                        default_cliff_duration, default_vesting_duration,
                        block_timestamp, ever_started, queried, other_contracts>>

\* Mutant: return_spare_tokens keeps one token more than is promised.
spare_amount_keeps_one == saturating_sub(token_balance, to_be_collected + 1)

\* Mutant: return_spare_tokens counts the whole balance as spare.
spare_amount_whole_balance == token_balance

spare_amount == saturating_sub(token_balance, to_be_collected)

return_spare_tokens_status(caller) ==
    IF authorise(caller, admin) # Ok THEN Unauthorised
    ELSE IF spare_amount > 0 THEN psp22_transfer(token_balance, spare_amount)
    ELSE AmountIsZero

return_spare_tokens(caller) ==
    IF Reverted(return_spare_tokens_status(caller))
    THEN UNCHANGED vars
    ELSE /\ token_balance' = token_balance - spare_amount
         /\ UNCHANGED <<storage, block_timestamp, ever_started, queried,
                        other_contracts>>

subtract_from_recipient_status(caller, address, amount) ==
    IF authorise_to_update_recipient(caller) # Ok THEN Unauthorised
    ELSE IF airdrop_has_not_started(block_timestamp, start) # Ok THEN AirdropHasStarted
    ELSE IF ~HasRecipient(address) THEN NotFound
    ELSE IF amount > recipients[address].total_amount THEN AmountGreaterThanTotal
    ELSE Ok

subtract_from_recipient(caller, address, amount) ==
    IF Reverted(subtract_from_recipient_status(caller, address, amount))
    THEN UNCHANGED vars
    ELSE /\ recipients' = [recipients EXCEPT ![address].total_amount = @ - amount]
         /\ to_be_collected' = saturating_sub(to_be_collected, amount)
         /\ UNCHANGED <<admin, sub_admins_mapping, sub_admins_as_vec, start,
                        default_collectable_at_tge_percentage,
                        default_cliff_duration, default_vesting_duration,
                        token_balance, block_timestamp, ever_started, queried,
                        other_contracts>>

\* The elements of a Vec, and a Vec without x (position + remove).
Elements(vec) == {vec[i] : i \in 1..Len(vec)}
Without(vec, x) == SelectSeq(vec, LAMBDA y : y # x)

\* Mutant: an account that is a sub-admin already is added again.
sub_admins_add_status_again(caller, address) ==
    IF authorise(caller, admin) # Ok THEN Unauthorised ELSE Ok

sub_admins_add_status(caller, address) ==
    IF authorise(caller, admin) # Ok THEN Unauthorised
    ELSE IF address \in sub_admins_mapping THEN "Already a sub admin"
    ELSE Ok

sub_admins_add(caller, address) ==
    IF Reverted(sub_admins_add_status(caller, address))
    THEN UNCHANGED vars
    ELSE /\ sub_admins_as_vec' = Append(sub_admins_as_vec, address)
         /\ sub_admins_mapping' = sub_admins_mapping \cup {address}
         /\ UNCHANGED <<admin, to_be_collected, start, recipients,
                        default_collectable_at_tge_percentage,
                        default_cliff_duration, default_vesting_duration,
                        token_balance, block_timestamp, ever_started, queried,
                        other_contracts>>

sub_admins_remove_status(caller, address) ==
    IF authorise(caller, admin) # Ok THEN Unauthorised
    ELSE IF address \notin sub_admins_mapping THEN "Not a sub admin"
    ELSE IF address \notin Elements(sub_admins_as_vec) THEN Trapped
    ELSE Ok

sub_admins_remove(caller, address) ==
    IF Reverted(sub_admins_remove_status(caller, address))
    THEN UNCHANGED vars
    ELSE /\ sub_admins_as_vec' = Without(sub_admins_as_vec, address)
         /\ sub_admins_mapping' = sub_admins_mapping \ {address}
         /\ UNCHANGED <<admin, to_be_collected, start, recipients,
                        default_collectable_at_tge_percentage,
                        default_cliff_duration, default_vesting_duration,
                        token_balance, block_timestamp, ever_started, queried,
                        other_contracts>>

\* An Option argument applied to a field: Some(x) replaces it, None keeps it.
unwrap_or(option, current) == IF option = None THEN current ELSE option

\* Mutant: start may move while to_be_collected is not zero.
update_config_start_status_while_promised(new_start) ==
    IF new_start = None \/ new_start > block_timestamp THEN Ok
    ELSE "New start time must be in the future"

\* The start check of update_config.
update_config_start_status(new_start) ==
    IF new_start = None THEN Ok
    ELSE IF new_start > block_timestamp
    THEN IF to_be_collected = 0 THEN Ok
         ELSE "to_be_collected must be zero when changing start time"
    ELSE "New start time must be in the future"

update_config_status(caller, new_admin, new_start, percentage, cliff, vesting) ==
    IF authorise(caller, admin) # Ok THEN Unauthorised
    ELSE IF update_config_start_status(new_start) # Ok
    THEN update_config_start_status(new_start)
    ELSE validate_airdrop_calculation_variables(
             unwrap_or(new_start, start),
             unwrap_or(percentage, default_collectable_at_tge_percentage),
             unwrap_or(cliff, default_cliff_duration),
             unwrap_or(vesting, default_vesting_duration))

\* Mutant: the writes update_config made before it returned Err are kept.
update_config_partial_writes(caller, new_admin, new_start, percentage, cliff, vesting) ==
    IF authorise(caller, admin) # Ok
    THEN UNCHANGED vars
    ELSE /\ admin' = IF new_admin = NoAccount THEN admin ELSE new_admin
         /\ IF update_config_start_status(new_start) # Ok
            THEN UNCHANGED <<start, default_collectable_at_tge_percentage,
                             default_cliff_duration, default_vesting_duration>>
            ELSE /\ start' = unwrap_or(new_start, start)
                 /\ default_collectable_at_tge_percentage' =
                        unwrap_or(percentage, default_collectable_at_tge_percentage)
                 /\ default_cliff_duration' = unwrap_or(cliff, default_cliff_duration)
                 /\ default_vesting_duration' =
                        unwrap_or(vesting, default_vesting_duration)
         /\ UNCHANGED <<sub_admins_mapping, sub_admins_as_vec, to_be_collected,
                        recipients, token_balance, block_timestamp, ever_started, queried,
                        other_contracts>>

update_config(caller, new_admin, new_start, percentage, cliff, vesting) ==
    IF Reverted(update_config_status(caller, new_admin, new_start,
                                     percentage, cliff, vesting))
    THEN UNCHANGED vars
    ELSE /\ admin' = IF new_admin = NoAccount THEN admin ELSE new_admin
         /\ start' = unwrap_or(new_start, start)
         /\ default_collectable_at_tge_percentage' =
                unwrap_or(percentage, default_collectable_at_tge_percentage)
         /\ default_cliff_duration' = unwrap_or(cliff, default_cliff_duration)
         /\ default_vesting_duration' = unwrap_or(vesting, default_vesting_duration)
         /\ UNCHANGED <<sub_admins_mapping, sub_admins_as_vec, to_be_collected,
                        recipients, token_balance, block_timestamp, ever_started, queried,
                        other_contracts>>

\* Mutant: a field that is not given is reset to the default of the config.
updated_recipient_from_defaults(address, percentage, cliff, vesting) ==
    [recipients[address] EXCEPT
       !.collectable_at_tge_percentage =
           unwrap_or(percentage, default_collectable_at_tge_percentage),
       !.cliff_duration = unwrap_or(cliff, default_cliff_duration),
       !.vesting_duration = unwrap_or(vesting, default_vesting_duration)]

\* The record update_recipient validates and stores.
updated_recipient(address, percentage, cliff, vesting) ==
    [recipients[address] EXCEPT
       !.collectable_at_tge_percentage = unwrap_or(percentage, @),
       !.cliff_duration = unwrap_or(cliff, @),
       !.vesting_duration = unwrap_or(vesting, @)]

update_recipient_status(caller, address, percentage, cliff, vesting) ==
    IF authorise_to_update_recipient(caller) # Ok THEN Unauthorised
    ELSE IF airdrop_has_not_started(block_timestamp, start) # Ok THEN AirdropHasStarted
    ELSE IF ~HasRecipient(address) THEN NotFound
    ELSE validate_airdrop_calculation_variables(
             start,
             updated_recipient(address, percentage, cliff, vesting)
                 .collectable_at_tge_percentage,
             updated_recipient(address, percentage, cliff, vesting).cliff_duration,
             updated_recipient(address, percentage, cliff, vesting).vesting_duration)

update_recipient(caller, address, percentage, cliff, vesting) ==
    IF Reverted(update_recipient_status(caller, address, percentage, cliff, vesting))
    THEN UNCHANGED vars
    ELSE /\ recipients' =
                [recipients EXCEPT
                   ![address] = updated_recipient(address, percentage, cliff, vesting)]
         /\ UNCHANGED <<admin, sub_admins_mapping, sub_admins_as_vec, to_be_collected,
                        start, default_collectable_at_tge_percentage,
                        default_cliff_duration, default_vesting_duration,
                        token_balance, block_timestamp, ever_started, queried,
                        other_contracts>>

\* ------------------------------------------------- the token sale contract
\* src/lib.rs.  The sale contract, the airdrop contract it allocates on, and
\* the accounts that buy.
SaleContract == "sale"
AirdropContract == "airdrop"
SaleBuyers == {"bob", "charlie"}

SaleStartTooLate == "Start + whitelist_duration must be less than end"
SaleUnitsNotPositive == "In unit, out unit and in target must be positive"
SaleTargetNotMultiple == "In target must be a multiple of in unit"
SaleHasNotStarted == "Sale has not started"
SaleHasEnded == "Sale has ended"
SaleWhitelistOnly == "Sale is currently only available to whitelisted addresses"
SaleNotInUnits == "In amount must be in multiples of in_unit"
SoldOut == "Sold out"
AlreadyOnWhitelist == "Already on whitelist"
NotOnWhitelist == "Not on whitelist"
InsufficientAzero == "Insufficient AZERO balance"

\* No sale contract is deployed.
NoSale ==
    [admin |-> NoAccount,
     airdrop_smart_contract |-> NoAccount,
     in_unit |-> 0,
     out_unit |-> 0,
     start |-> 0,
     end |-> 0,
     buyers |-> <<>>,
     whitelist_duration |-> 0,
     in_target |-> 0,
     in_raised |-> 0]
\* No native balances are tracked.
NoAzero == <<>>

\* Mutant: a whitelist phase that fills the whole sale is accepted.
sale_new_status_end_inclusive(in_unit, out_unit, st, end, whitelist_duration, in_target) ==
    IF st + whitelist_duration > TimestampMax THEN Trapped
    ELSE IF st + whitelist_duration > end THEN SaleStartTooLate
    ELSE IF in_unit = 0 \/ out_unit = 0 \/ in_target = 0 THEN SaleUnitsNotPositive
    ELSE IF in_target % in_unit > 0 THEN SaleTargetNotMultiple
    ELSE Ok

\* What new returns: Ok(Self) or its error; start + whitelist_duration
\* panics when it does not fit a Timestamp.
sale_new_status(in_unit, out_unit, st, end, whitelist_duration, in_target) ==
    IF st + whitelist_duration > TimestampMax THEN Trapped
    ELSE IF st + whitelist_duration >= end THEN SaleStartTooLate
    ELSE IF in_unit = 0 \/ out_unit = 0 \/ in_target = 0 THEN SaleUnitsNotPositive
    ELSE IF in_target % in_unit > 0 THEN SaleTargetNotMultiple
    ELSE Ok

\* The storage new builds in Ok(Self { .. }).
sale_new_storage(caller, airdrop_smart_contract, in_unit, out_unit, st, end, whitelist_duration, in_target) ==
    [admin |-> caller,
     airdrop_smart_contract |-> airdrop_smart_contract,
     in_unit |-> in_unit,
     out_unit |-> out_unit,
     start |-> st,
     end |-> end,
     buyers |-> <<>>,
     whitelist_duration |-> whitelist_duration,
     in_target |-> in_target,
     in_raised |-> 0]

\* The constructor new called by caller: the contract is instantiated when it
\* returns Ok and is not when it returns Err or panics.
sale_new(caller, airdrop_smart_contract, in_unit, out_unit, st, end, whitelist_duration, in_target) ==
    /\ sale = NoSale
    /\ IF Reverted(sale_new_status(in_unit, out_unit, st, end,
                                   whitelist_duration, in_target))
       THEN UNCHANGED vars
       ELSE /\ sale' = sale_new_storage(caller, airdrop_smart_contract, in_unit,
                                        out_unit, st, end, whitelist_duration,
                                        in_target)
            /\ UNCHANGED <<storage, token_balance, block_timestamp, ever_started,
                           queried, azero, psp22, in_flight>>

\* The query config of the sale contract.
sale_config ==
    [admin |-> sale.admin,
     airdrop_smart_contract |-> sale.airdrop_smart_contract,
     in_unit |-> sale.in_unit,
     out_unit |-> sale.out_unit,
     start |-> sale.start,
     end |-> sale.end,
     whitelist_duration |-> sale.whitelist_duration,
     in_target |-> sale.in_target,
     in_raised |-> sale.in_raised]

\* The query show of the sale contract: the stored Buyer, or the default one.
sale_show(address) ==
    IF address \in DOMAIN sale.buyers
    THEN sale.buyers[address]
    ELSE [total_in |-> 0, whitelisted |-> FALSE]

\* Mutant: every caller passes.
sale_authorise_anyone(allowed, received) == Ok

sale_authorise(allowed, received) ==
    IF allowed # received THEN Unauthorised ELSE Ok

\* env().transfer out of a contract that holds balance.
transfer_azero_status(balance, amount) ==
    IF amount > balance THEN InsufficientAzero ELSE Ok

\* Native currency moving from one account to another.
azero_transfer(balances, from, to, amount) ==
    [[balances EXCEPT ![from] = @ - amount] EXCEPT ![to] = @ + amount]

\* Mutant: a sale with a whitelist phase stays closed to the others.
whitelist_applies_for_good == sale.whitelist_duration > 0

\* buy: the whitelist applies to this call.
whitelist_applies ==
    /\ sale.whitelist_duration > 0
    /\ block_timestamp < sale.start + sale.whitelist_duration

max_in_amount == sale.in_target - sale.in_raised
\* Mutant: what exceeds the target stays with the contract.
refund_amount_none(value) == 0
refund_amount(value) ==
    IF value > max_in_amount THEN value - max_in_amount ELSE 0
in_amount(value) ==
    IF value > max_in_amount THEN max_in_amount ELSE value
\* Mutant: one token for every unit of native currency.
out_amount_at_par(value) == in_amount(value)
out_amount(value) ==
    as_u128((in_amount(value) * sale.out_unit) \div sale.in_unit)

\* Mutant: the sold-out check comes before the check of the amount.
buy_status_sold_out_first(caller, value) ==
    IF block_timestamp < sale.start THEN SaleHasNotStarted
    ELSE IF block_timestamp > sale.end THEN SaleHasEnded
    ELSE IF whitelist_applies /\ ~sale_show(caller).whitelisted
    THEN SaleWhitelistOnly
    ELSE IF sale.in_raised = sale.in_target THEN SoldOut
    ELSE IF value = 0 \/ value % sale.in_unit > 0 THEN SaleNotInUnits
    ELSE IF out_amount(value) = Trap THEN Trapped
    ELSE add_to_recipient_status(SaleContract, caller, out_amount(value))

\* Mutant: buy does not look at what the airdrop contract answers.
buy_status_ignoring_airdrop(caller, value) ==
    IF block_timestamp < sale.start THEN SaleHasNotStarted
    ELSE IF block_timestamp > sale.end THEN SaleHasEnded
    ELSE IF whitelist_applies /\ ~sale_show(caller).whitelisted
    THEN SaleWhitelistOnly
    ELSE IF value = 0 \/ value % sale.in_unit > 0 THEN SaleNotInUnits
    ELSE IF sale.in_raised = sale.in_target THEN SoldOut
    ELSE IF transfer_azero_status(azero[SaleContract] + value,
                                  refund_amount(value)) # Ok
    THEN InsufficientAzero
    ELSE IF out_amount(value) = Trap THEN Trapped
    ELSE IF transfer_azero_status(
                azero[SaleContract] + value - refund_amount(value),
                in_amount(value)) # Ok
    THEN InsufficientAzero
    ELSE Ok

\* Mutant: buy goes on when nothing is left to raise.
buy_status_without_sold_out(caller, value) ==
    IF block_timestamp < sale.start THEN SaleHasNotStarted
    ELSE IF block_timestamp > sale.end THEN SaleHasEnded
    ELSE IF whitelist_applies /\ ~sale_show(caller).whitelisted
    THEN SaleWhitelistOnly
    ELSE IF value = 0 \/ value % sale.in_unit > 0 THEN SaleNotInUnits
    ELSE IF transfer_azero_status(azero[SaleContract] + value,
                                  refund_amount(value)) # Ok
    THEN InsufficientAzero
    ELSE IF out_amount(value) = Trap THEN Trapped
    ELSE IF add_to_recipient_status(SaleContract, caller, out_amount(value)) # Ok
    THEN add_to_recipient_status(SaleContract, caller, out_amount(value))
    ELSE IF transfer_azero_status(
                azero[SaleContract] + value - refund_amount(value),
                in_amount(value)) # Ok
    THEN InsufficientAzero
    ELSE Ok

\* What buy returns when caller transfers value with the call: the error of
\* the first check that fails, the error the airdrop contract answers
\* add_to_recipient with, a trap, or Ok((in_amount, out_amount)).
buy_status(caller, value) ==
    IF block_timestamp < sale.start THEN SaleHasNotStarted
    ELSE IF block_timestamp > sale.end THEN SaleHasEnded
    ELSE IF whitelist_applies /\ ~sale_show(caller).whitelisted
    THEN SaleWhitelistOnly
    ELSE IF value = 0 \/ value % sale.in_unit > 0 THEN SaleNotInUnits
    ELSE IF sale.in_raised = sale.in_target THEN SoldOut
    ELSE IF transfer_azero_status(azero[SaleContract] + value,
                                  refund_amount(value)) # Ok
    THEN InsufficientAzero
    ELSE IF out_amount(value) = Trap THEN Trapped
    ELSE IF add_to_recipient_status(SaleContract, caller, out_amount(value)) # Ok
    THEN add_to_recipient_status(SaleContract, caller, out_amount(value))
    ELSE IF transfer_azero_status(
                azero[SaleContract] + value - refund_amount(value),
                in_amount(value)) # Ok
    THEN InsufficientAzero
    ELSE Ok

\* The pair buy returns in Ok.
buy_returns(value) == <<in_amount(value), out_amount(value)>>

\* The message buy, payable: value moves from the caller to the contract with
\* the call, the contract refunds what exceeds the target, has the airdrop
\* contract add out_amount to the caller's record, and passes in_amount on to
\* the admin.
buy(caller, value) ==
    /\ value <= azero[caller]
    /\ IF Reverted(buy_status(caller, value))
       THEN UNCHANGED vars
       ELSE /\ azero' =
                   azero_transfer(
                       azero_transfer(
                           azero_transfer(azero, caller, SaleContract, value),
                           SaleContract, caller, refund_amount(value)),
                       SaleContract, sale.admin, in_amount(value))
            /\ add_to_recipient_writes(caller, out_amount(value))
            /\ sale' =
                   [sale EXCEPT
                      !.in_raised = @ + in_amount(value),
                      !.buyers =
                          (caller :> [sale_show(caller) EXCEPT
                                        !.total_in = @ + in_amount(value)])
                          @@ @]
            /\ UNCHANGED <<admin, sub_admins_mapping, sub_admins_as_vec, start,
                           default_collectable_at_tge_percentage,
                           default_cliff_duration, default_vesting_duration,
                           token_balance, block_timestamp, ever_started,
                           queried, psp22, in_flight>>

whitelist_add_status(caller, address) ==
    IF sale_authorise(caller, sale.admin) # Ok THEN Unauthorised
    ELSE IF sale_show(address).whitelisted THEN AlreadyOnWhitelist
    ELSE Ok

whitelist_add(caller, address) ==
    IF Reverted(whitelist_add_status(caller, address))
    THEN UNCHANGED vars
    ELSE /\ sale' =
                [sale EXCEPT
                   !.buyers =
                       (address :> [sale_show(address) EXCEPT
                                      !.whitelisted = TRUE])
                       @@ @]
         /\ UNCHANGED <<storage, token_balance, block_timestamp, ever_started,
                        queried, azero, psp22, in_flight>>

whitelist_remove_status(caller, address) ==
    IF sale_authorise(caller, sale.admin) # Ok THEN Unauthorised
    ELSE IF ~sale_show(address).whitelisted THEN NotOnWhitelist
    ELSE Ok

whitelist_remove(caller, address) ==
    IF Reverted(whitelist_remove_status(caller, address))
    THEN UNCHANGED vars
    ELSE /\ sale' =
                [sale EXCEPT
                   !.buyers =
                       (address :> [sale_show(address) EXCEPT
                                      !.whitelisted = FALSE])
                       @@ @]
         /\ UNCHANGED <<storage, token_balance, block_timestamp, ever_started,
                        queried, azero, psp22, in_flight>>

\* ------------------------------------------------------ the token contract
\* src/az_button/lib.rs: a PSP22 token (openbrush) with the message burn.
\* No token ledger is tracked.
NoButton == [supply |-> 0, balances |-> <<>>, allowances |-> <<>>]

PSP22InsufficientBalance == "PSP22Error::InsufficientBalance"
PSP22InsufficientAllowance == "PSP22Error::InsufficientAllowance"

\* The psp22::Data after new(cap, ..): cap is minted to the caller.
button_new_storage(caller, cap) ==
    [supply |-> cap,
     balances |-> [a \in Accounts |-> IF a = caller THEN cap ELSE 0],
     allowances |-> [p \in Accounts \X Accounts |-> 0]]

\* psp22::Internal::_allowance(owner, spender)
allowance(owner, spender) == psp22.allowances[<<owner, spender>>]

\* Mutant: the balance is looked at before the allowance.
burn_status_balance_first(caller, account, amount) ==
    IF psp22.balances[account] < amount THEN PSP22InsufficientBalance
    ELSE IF caller # account /\ allowance(account, caller) < amount
    THEN PSP22InsufficientAllowance
    ELSE Ok

\* What burn returns: the allowance check of burn, then the balance check of
\* _burn_from.
burn_status(caller, account, amount) ==
    IF caller # account /\ allowance(account, caller) < amount
    THEN PSP22InsufficientAllowance
    ELSE IF psp22.balances[account] < amount THEN PSP22InsufficientBalance
    ELSE Ok

\* The message burn(account, amount) called by caller.
burn(caller, account, amount) ==
    IF Reverted(burn_status(caller, account, amount))
    THEN UNCHANGED vars
    ELSE /\ psp22' =
                [psp22 EXCEPT
                   !.allowances =
                       IF caller # account
                       THEN [@ EXCEPT ![<<account, caller>>] = @ - amount]
                       ELSE @,
                   !.balances = [@ EXCEPT ![account] = @ - amount],
                   !.supply = @ - amount]
         /\ UNCHANGED <<storage, token_balance, block_timestamp, ever_started,
                        queried, sale, azero, in_flight>>

\* PSP22::approve(spender, value) called by owner.
button_approve(owner, spender, value) ==
    /\ psp22' = [psp22 EXCEPT !.allowances[<<owner, spender>>] = value]
    /\ UNCHANGED <<storage, token_balance, block_timestamp, ever_started,
                   queried, sale, azero, in_flight>>

\* PSP22::transfer(to, value, data) called by from.
button_transfer(from, to, value) ==
    IF Reverted(IF psp22.balances[from] < value
                THEN PSP22InsufficientBalance ELSE Ok)
    THEN UNCHANGED vars
    ELSE /\ psp22' =
                [psp22 EXCEPT
                   !.balances =
                       [[@ EXCEPT ![from] = @ - value] EXCEPT ![to] = @ + value]]
         /\ UNCHANGED <<storage, token_balance, block_timestamp, ever_started,
                        queried, sale, azero, in_flight>>

\* ---------------------------------------- collect, transfer in progress
\* collect seen from a token contract that runs code of its own while the
\* transfer is in progress: the message up to its call of the token, the
\* calls the token makes meanwhile, and the message from the return of the
\* transfer on.

\* Mutant: the transfer is invoked with allow_reentry set.
allow_reentry_set == TRUE

\* CallFlags::default() of the transfer: allow_reentry is false, the
\* runtime refuses every call into the airdrop contract until the transfer
\* has returned.
allow_reentry == FALSE

\* collect's checks before the transfer.
collect_status_before_transfer(caller) ==
    IF ~HasRecipient(caller) THEN NotFound
    ELSE IF collect_amount(caller) = Trap THEN Trapped
    ELSE IF collect_amount(caller) = 0 THEN AmountIsZero
    ELSE Ok

\* What a collect suspended at its transfer holds: its locals caller,
\* recipient and collectable_amount, the state its revert goes back to, and
\* whether the runtime has refused a call made meanwhile.
collect_frame(caller) ==
    [caller |-> caller,
     recipient |-> recipients[caller],
     collectable_amount |-> collect_amount(caller),
     denied |-> FALSE,
     recipients |-> recipients,
     to_be_collected |-> to_be_collected,
     token_balance |-> token_balance]

\* collect up to the invocation of the transfer.
collect_invokes_transfer(caller) ==
    IF Reverted(collect_status_before_transfer(caller))
    THEN UNCHANGED vars
    ELSE /\ in_flight' = Append(in_flight, collect_frame(caller))
         /\ UNCHANGED <<storage, token_balance, block_timestamp, ever_started,
                        queried, sale, azero, psp22>>

\* The call the runtime refuses: the callee does not run, the token contract
\* gets the error.
reentry_denied ==
    /\ in_flight' = [in_flight EXCEPT ![Len(in_flight)].denied = TRUE]
    /\ UNCHANGED <<storage, token_balance, block_timestamp, ever_started,
                   queried, sale, azero, psp22>>

\* The token contract, while the transfer is in progress, has caller call
\* collect.
token_calls_back_collect(caller) ==
    /\ in_flight # <<>>
    /\ IF allow_reentry
       THEN Len(in_flight) < DepthMax /\ collect_invokes_transfer(caller)
       ELSE reentry_denied

\* The token contract, while the transfer is in progress, has caller call
\* return_spare_tokens.
token_calls_back_return_spare_tokens(caller) ==
    /\ in_flight # <<>>
    /\ IF allow_reentry THEN return_spare_tokens(caller) ELSE reentry_denied

\* The transfer of the innermost suspended collect returns, and collect runs
\* to its end: on Ok the tokens have left the contract and collect writes
\* its local recipient and to_be_collected; on Err the call is reverted.
transfer_returns(status) ==
    /\ in_flight # <<>>
    /\ LET frame == in_flight[Len(in_flight)]
       IN  /\ status = Ok => frame.collectable_amount <= token_balance
           /\ in_flight' = SubSeq(in_flight, 1, Len(in_flight) - 1)
           /\ IF Reverted(status)
              THEN /\ recipients' = frame.recipients
                   /\ to_be_collected' = frame.to_be_collected
                   /\ token_balance' = frame.token_balance
              ELSE /\ token_balance' = token_balance - frame.collectable_amount
                   /\ recipients' =
                          (frame.caller :>
                               [frame.recipient EXCEPT !.collected =
                                    collected_after_collect(frame.recipient,
                                        frame.collectable_amount)])
                          @@ recipients
                   /\ to_be_collected' =
                          to_be_collected_after_collect(frame.collectable_amount)
           /\ UNCHANGED <<admin, sub_admins_mapping, sub_admins_as_vec, start,
                          default_collectable_at_tge_percentage,
                          default_cliff_duration, default_vesting_duration,
                          block_timestamp, ever_started, queried, sale, azero,
                          psp22>>

\* ------------------------------------------------------------ environment
\* The chain produces a block: block time advances.
Tick ==
    /\ block_timestamp < TimestampMax
    /\ block_timestamp' = block_timestamp + 1
    /\ ever_started' = (ever_started \/ block_timestamp' >= start)
    /\ UNCHANGED <<storage, token_balance, queried, other_contracts>>

\* Somebody transfers tokens to the contract on the token ledger.
Fund(amount) ==
    /\ token_balance + amount <= BalanceMax
    /\ token_balance' = token_balance + amount
    /\ UNCHANGED <<storage, block_timestamp, ever_started, queried, other_contracts>>

\* ---------------------------------------------------------- specification
\* new(token, start, default_collectable_at_tge_percentage, ...) called by
\* Deployer with arguments that pass its validation.
new(st, percentage, cliff, vesting) ==
    /\ validate_airdrop_calculation_variables(st, percentage, cliff, vesting) = Ok
    /\ admin = Deployer
    /\ sub_admins_mapping = {}
    /\ sub_admins_as_vec = <<>>
    /\ to_be_collected = 0
    /\ start = st
    /\ recipients = <<>>
    /\ default_collectable_at_tge_percentage = percentage
    /\ default_cliff_duration = cliff
    /\ default_vesting_duration = vesting

Init ==
    /\ \E st \in 0..1, percentage \in Percentages, cliff \in 0..1, vesting \in 0..1 :
           new(st, percentage, cliff, vesting)
    /\ token_balance = 0
    /\ block_timestamp = 0
    /\ ever_started = (block_timestamp >= start)
    /\ queried = NoQuery
    /\ sale = NoSale
    /\ azero = NoAzero
    /\ psp22 = NoButton
    /\ in_flight = <<>>

\* The arguments the messages are called with.
AmountInputs == Balances
\* <<collectable_at_tge_percentage, cliff_duration, vesting_duration>> as the
\* Option arguments of update_config and update_recipient.
ScheduleInputs ==
    { <<100, 0, 0>>, <<50, 0, 1>>, <<50, 1, 1>>,
      <<101, None, None>>, <<100, None, None>>, <<None, None, 0>> }
\* <<admin, start, percentage, cliff, vesting>> of update_config: a new admin,
\* a new start, new defaults, and calls that combine two of them.
ConfigInputs ==
    { <<a, None, None, None, None>> : a \in {"alice", "bob"} }
    \cup { <<NoAccount, st, None, None, None>> : st \in 1..TimestampMax }
    \cup { <<NoAccount, None, sch[1], sch[2], sch[3]>> : sch \in ScheduleInputs }
    \cup { <<"bob", 1, None, None, None>>, <<"bob", None, 101, None, None>>,
           <<NoAccount, TimestampMax, 50, 0, 1>>, <<NoAccount, 1, 50, 0, 1>> }

Next ==
    \/ Tick
    \/ \E amount \in 1..BalanceMax : Fund(amount)
    \/ \E caller \in Accounts, amount \in 1..BalanceMax, transferred \in BOOLEAN :
           acquire_token(caller, amount, transferred)
    \/ \E caller \in Accounts, address \in RecipientAddresses, amount \in AmountInputs :
           add_to_recipient(caller, address, amount)
    \/ \E caller \in Accounts : collect(caller)
    \/ \E caller \in Accounts : return_spare_tokens(caller)
    \/ \E caller \in Accounts, address \in RecipientAddresses, amount \in AmountInputs :
           subtract_from_recipient(caller, address, amount)
    \/ \E caller \in Accounts, address \in SubAdminCandidates :
           sub_admins_add(caller, address)
    \/ \E caller \in Accounts, address \in SubAdminCandidates :
           sub_admins_remove(caller, address)
    \/ \E caller \in Accounts, c \in ConfigInputs :
           update_config(caller, c[1], c[2], c[3], c[4], c[5])
    \/ \E caller \in Accounts, address \in RecipientAddresses,
          schedule \in ScheduleInputs :
           update_recipient(caller, address, schedule[1], schedule[2], schedule[3])

Spec == Init /\ [][Next]_vars


\* The ledger alone: allocate, deallocate and withdraw calls by any caller
\* (with the sub-admin set growing), block time advancing, tokens arriving.
NextLedger ==
    \/ Tick
    \/ \E amount \in 1..BalanceMax : Fund(amount)
    \/ \E caller \in Accounts, address \in RecipientAddresses, amount \in AmountInputs :
           add_to_recipient(caller, address, amount)
    \/ \E caller \in Accounts : collect(caller)
    \/ \E caller \in Accounts, address \in RecipientAddresses, amount \in AmountInputs :
           subtract_from_recipient(caller, address, amount)
    \/ \E caller \in Accounts, address \in SubAdminCandidates :
           sub_admins_add(caller, address)

SpecLedger == Init /\ [][NextLedger]_vars

\* The query collectable_amount on its own: one record with any schedule that
\* passes validation, any total_amount, and a collected that is 0 or what an
\* earlier collect left; the query is made with every timestamp.
QueryPercentages == {0, 20, 50, 100}

QueryRecipients ==
    [total_amount : Balances,
     collected : Balances,
     collectable_at_tge_percentage : QueryPercentages,
     cliff_duration : Timestamps,
     vesting_duration : Timestamps]

CollectedBefore(recipient, st) ==
    {0} \cup { total_collectable_at_time(recipient, st, t) : t \in Timestamps }

InitQuery ==
    /\ \E st \in Timestamps, r \in QueryRecipients :
           /\ validate_airdrop_calculation_variables(
                  st, r.collectable_at_tge_percentage,
                  r.cliff_duration, r.vesting_duration) = Ok
           /\ r.collected \in CollectedBefore(r, st)
           /\ start = st
           /\ recipients = ("bob" :> r)
           /\ to_be_collected = r.total_amount - r.collected
           /\ token_balance = r.total_amount - r.collected
           /\ default_collectable_at_tge_percentage = r.collectable_at_tge_percentage
           /\ default_cliff_duration = r.cliff_duration
           /\ default_vesting_duration = r.vesting_duration
    /\ admin = Deployer
    /\ sub_admins_mapping = {}
    /\ sub_admins_as_vec = <<>>
    /\ block_timestamp = TimestampMax
    /\ ever_started = TRUE
    /\ queried = NoQuery
    /\ sale = NoSale
    /\ azero = NoAzero
    /\ psp22 = NoButton
    /\ in_flight = <<>>

NextQuery ==
    \E address \in Accounts, timestamp \in Timestamps :
        collectable_amount(address, timestamp)

SpecQuery == InitQuery /\ [][NextQuery]_vars


\* Every message with every caller, on one recipient and unit amounts: who may
\* call what, with the admin handed over and the sub-admin added and removed.
RoleAmounts == {1}
RoleRecipients == {"bob"}

NextRoles ==
    \/ Tick
    \/ \E amount \in RoleAmounts : Fund(amount)
    \/ \E caller \in Accounts, amount \in RoleAmounts, transferred \in BOOLEAN :
           acquire_token(caller, amount, transferred)
    \/ \E caller \in Accounts, address \in RoleRecipients, amount \in RoleAmounts :
           add_to_recipient(caller, address, amount)
    \/ \E caller \in Accounts : collect(caller)
    \/ \E caller \in Accounts : return_spare_tokens(caller)
    \/ \E caller \in Accounts, address \in RoleRecipients, amount \in RoleAmounts :
           subtract_from_recipient(caller, address, amount)
    \/ \E caller \in Accounts, address \in SubAdminCandidates :
           sub_admins_add(caller, address)
    \/ \E caller \in Accounts, address \in SubAdminCandidates :
           sub_admins_remove(caller, address)
    \/ \E caller \in Accounts, c \in ConfigInputs :
           update_config(caller, c[1], c[2], c[3], c[4], c[5])
    \/ \E caller \in Accounts, address \in RoleRecipients,
          schedule \in ScheduleInputs :
           update_recipient(caller, address, schedule[1], schedule[2], schedule[3])

SpecRoles == Init /\ [][NextRoles]_vars


\* The sub-admin set alone: every caller adds and removes every account, the
\* admin is handed over, block time advances.
NextSubAdmins ==
    \/ Tick
    \/ \E caller \in Accounts, address \in Accounts :
           sub_admins_add(caller, address)
    \/ \E caller \in Accounts, address \in Accounts :
           sub_admins_remove(caller, address)
    \/ \E caller \in Accounts, new_admin \in Accounts :
           update_config(caller, new_admin, None, None, None, None)

SpecSubAdmins == Init /\ [][NextSubAdmins]_vars

\* Allocation alone: the admin and a stranger allocate to two addresses while
\* the admin changes the default schedule, tokens arrive and time advances.
NextAllocate ==
    \/ Tick
    \/ \E amount \in 1..BalanceMax : Fund(amount)
    \/ \E caller \in {Deployer, "bob"}, address \in RecipientAddresses,
          amount \in AmountInputs :
           add_to_recipient(caller, address, amount)
    \/ \E schedule \in ScheduleInputs :
           update_config(Deployer, NoAccount, None,
                         schedule[1], schedule[2], schedule[3])

SpecAllocate == Init /\ [][NextAllocate]_vars

\* The three queries between allocations and withdrawals: the admin allocates
\* to two addresses, the recipients collect, and anybody asks for any record,
\* for the config and for the collectable amount at any time.
NextQueries ==
    \/ Tick
    \/ \E amount \in 1..BalanceMax : Fund(amount)
    \/ \E address \in RecipientAddresses, amount \in 1..BalanceMax :
           add_to_recipient(Deployer, address, amount)
    \/ \E caller \in RecipientAddresses : collect(caller)
    \/ \E address \in Accounts : show(address)
    \/ config_message
    \/ \E address \in Accounts, timestamp \in Timestamps :
           collectable_amount(address, timestamp)

SpecQueries == Init /\ [][NextQueries]_vars

\* The constructor of the sale contract: any caller instantiates it with any
\* parameters, once, while block time advances.
\* <<in_unit, out_unit, start, end, whitelist_duration, in_target>>
SaleNewInputs ==
    Balances \X {0, 1} \X {0, 1} \X {1, TimestampMax} \X {0, 1} \X Balances

NextSaleNew ==
    \/ Tick
    \/ \E caller \in Accounts, p \in SaleNewInputs :
           sale_new(caller, AirdropContract, p[1], p[2], p[3], p[4], p[5], p[6])

SpecSaleNew == Init /\ [][NextSaleNew]_vars

\* The sale: the airdrop contract distributes everything at its start, the
\* sale contract is instantiated by Deployer with parameters that new accepts,
\* the buyers hold native currency.  Tokens arrive at the airdrop contract,
\* its admin makes the sale contract a sub-admin and takes that back, the sale
\* admin and a buyer edit the whitelist, the buyers buy.
\* <<in_unit, out_unit, start, end, whitelist_duration, in_target>>
SaleInputs ==
    { p \in (1..BalanceMax) \X (1..BalanceMax) \X {0, 1} \X {1, TimestampMax}
            \X {0, 1} \X (1..BalanceMax) :
        sale_new_status(p[1], p[2], p[3], p[4], p[5], p[6]) = Ok }

InitSale ==
    /\ \E st \in 1..TimestampMax : new(st, 100, 0, 0)
    /\ token_balance = 0
    /\ block_timestamp = 0
    /\ ever_started = FALSE
    /\ queried = NoQuery
    /\ \E p \in SaleInputs :
           sale = sale_new_storage(Deployer, AirdropContract,
                                   p[1], p[2], p[3], p[4], p[5], p[6])
    /\ azero = [a \in Accounts \cup {SaleContract} |->
                    IF a \in SaleBuyers THEN BalanceMax ELSE 0]
    /\ psp22 = NoButton
    /\ in_flight = <<>>

NextSale ==
    \/ Tick
    \/ \E amount \in 1..BalanceMax : Fund(amount)
    \/ sub_admins_add(Deployer, SaleContract)
    \/ sub_admins_remove(Deployer, SaleContract)
    \/ \E caller \in {Deployer, "bob"}, address \in SaleBuyers :
           whitelist_add(caller, address)
    \/ \E caller \in {Deployer, "bob"}, address \in SaleBuyers :
           whitelist_remove(caller, address)
    \/ \E caller \in SaleBuyers, value \in Balances : buy(caller, value)

SpecSale == InitSale /\ [][NextSale]_vars

\* The token: Deployer instantiates it with the whole cap, the holders
\* transfer and approve, and every caller burns from every account.
ButtonSpenders == {"alice", "bob"}

InitButton ==
    /\ new(1, 100, 0, 0)
    /\ token_balance = 0
    /\ block_timestamp = 0
    /\ ever_started = FALSE
    /\ queried = NoQuery
    /\ sale = NoSale
    /\ azero = NoAzero
    /\ psp22 = button_new_storage(Deployer, BalanceMax)
    /\ in_flight = <<>>

NextButton ==
    \/ \E caller \in Accounts, account \in Accounts, amount \in Balances :
           burn(caller, account, amount)
    \/ \E owner \in Accounts, value \in Balances :
           \E spender \in ButtonSpenders \ {owner} :
               button_approve(owner, spender, value)
    \/ \E from \in Accounts, value \in 1..BalanceMax :
           \E to \in Accounts \ {from} :
               button_transfer(from, to, value)

SpecButton == InitButton /\ [][NextButton]_vars

\* collect with a token contract that calls back: allocations, funding and
\* block time between the transactions; within a collect, the calls the token
\* makes into the airdrop contract before its transfer returns Ok or Err.
NextReentry ==
    \/ in_flight = <<>> /\ Tick
    \/ \E amount \in 1..BalanceMax : in_flight = <<>> /\ Fund(amount)
    \/ \E address \in RecipientAddresses, amount \in 1..BalanceMax :
           in_flight = <<>> /\ add_to_recipient(Deployer, address, amount)
    \/ \E caller \in Accounts : in_flight = <<>> /\ collect_invokes_transfer(caller)
    \/ \E caller \in Accounts : token_calls_back_collect(caller)
    \/ \E caller \in Accounts : token_calls_back_return_spare_tokens(caller)
    \/ \E status \in {Ok, PSP22Error} : transfer_returns(status)

SpecReentry == Init /\ [][NextReentry]_vars

\* ------------------------------------------------------------------ claims
\* The sum over the records of addresses of total_amount - collected.
RECURSIVE Outstanding(_)
Outstanding(addresses) ==
    IF addresses = {} THEN 0
    ELSE LET a == CHOOSE x \in addresses : TRUE
         IN  (recipients[a].total_amount - recipients[a].collected)
             + Outstanding(addresses \ {a})

\* C1: after any sequence of add_to_recipient, subtract_from_recipient and
\* collect calls, accepted or rejected, with block time non-decreasing,
\* to_be_collected equals the sum over all records of total_amount - collected.
C1_Conservation == to_be_collected = Outstanding(DOMAIN recipients)

\* Both records exist, one has collected and the other is still owed.
C1_Witness ==
    \E a, b \in DOMAIN recipients :
        /\ a # b
        /\ recipients[a].collected > 0
        /\ recipients[b].total_amount > recipients[b].collected

\* C2: in every reachable state, under any interleaving of all messages with
\* block time advancing, every record has collected <= total_amount.
C2_CollectedAtMostTotal ==
    \A a \in DOMAIN recipients : recipients[a].collected <= recipients[a].total_amount

\* C3: the contract's token balance changing only by inbound funding and by
\* the contract's own transfers, to_be_collected <= the token balance in every
\* state, in particular after every successful add_to_recipient.
C3_Solvent == to_be_collected <= token_balance

\* An allocation has used up the whole balance and the airdrop has not started.
C3_Witness ==
    /\ block_timestamp < start
    /\ to_be_collected > 0
    /\ to_be_collected = token_balance
    /\ \E a \in DOMAIN recipients : recipients[a].total_amount > 0

\* C5: for every record in every reachable state and every timestamp, the
\* amount collectable_amount returns is at least 0 and at most
\* total_amount - collected.
C5_CollectableWithinRemainder ==
    \A a \in DOMAIN recipients, t \in Timestamps :
        collectable_amount_status(a, t) = Ok =>
            /\ collectable_amount_of(recipients[a], start, t) >= 0
            /\ collectable_amount_of(recipients[a], start, t)
                   <= recipients[a].total_amount - recipients[a].collected

\* The three-phase formula of the specification: the cumulative unlocked
\* amount of a record at timestamp, with elapsed clamped to vesting_duration.
unlocked(recipient, st, timestamp) ==
    IF timestamp < st THEN 0
    ELSE LET tge_amount ==
                 (recipient.total_amount * recipient.collectable_at_tge_percentage)
                 \div 100
             vesting_start == st + recipient.cliff_duration
             elapsed ==
                 IF timestamp - vesting_start < recipient.vesting_duration
                 THEN timestamp - vesting_start
                 ELSE recipient.vesting_duration
             vesting_amount ==
                 IF recipient.vesting_duration > 0 /\ timestamp >= vesting_start
                 THEN (elapsed * (recipient.total_amount - tge_amount))
                      \div recipient.vesting_duration
                 ELSE 0
         IN  IF tge_amount + vesting_amount > recipient.total_amount
             THEN recipient.total_amount
             ELSE tge_amount + vesting_amount

\* max(0, unlocked - collected).
withdrawable(recipient, st, timestamp) ==
    IF unlocked(recipient, st, timestamp) > recipient.collected
    THEN unlocked(recipient, st, timestamp) - recipient.collected
    ELSE 0

C7_CollectAtomic ==
    [][\A c \in Accounts :
          collect(c) =>
              IF collect_status(c) = Ok
              THEN /\ token_balance' = token_balance - collect_amount(c)
                   /\ recipients'[c].collected =
                          recipients[c].collected + collect_amount(c)
                   /\ to_be_collected' = to_be_collected - collect_amount(c)
              ELSE UNCHANGED <<recipients, to_be_collected, token_balance>>]_vars

\* C8: immediately after a successful collect, a second collect by the same
\* recipient at the same block time fails with "Amount is zero", and a collect
\* that fails so transfers nothing.
C8_SecondCollectIsZero ==
    [][\A c \in Accounts :
          /\ (collect_status(c) = Ok /\ collect(c))
                 => collect_status(c)' = AmountIsZero
          /\ (collect_status(c) = AmountIsZero /\ collect(c))
                 => UNCHANGED <<token_balance, recipients, to_be_collected>>]_vars

\* A recipient has collected, is still owed, and a collect now finds nothing.
C8_Witness ==
    \E c \in DOMAIN recipients :
        /\ recipients[c].collected > 0
        /\ recipients[c].collected < recipients[c].total_amount
        /\ block_timestamp >= start
        /\ token_balance > 0
        /\ collect_status(c) = AmountIsZero

\* The calls of add_to_recipient, subtract_from_recipient and update_recipient
\* by caller all return the already-started error.
GateClosedFor(caller) ==
    /\ \A address \in RecipientAddresses, amount \in AmountInputs :
           /\ add_to_recipient_status(caller, address, amount) = AirdropHasStarted
           /\ subtract_from_recipient_status(caller, address, amount) = AirdropHasStarted
    /\ \A address \in RecipientAddresses, s \in ScheduleInputs :
           update_recipient_status(caller, address, s[1], s[2], s[3]) = AirdropHasStarted

\* A step that is a call of one of the three by caller.
RecipientMutationBy(caller) ==
    \/ \E address \in RecipientAddresses, amount \in AmountInputs :
           \/ add_to_recipient(caller, address, amount)
           \/ subtract_from_recipient(caller, address, amount)
    \/ \E address \in RecipientAddresses, s \in ScheduleInputs :
           update_recipient(caller, address, s[1], s[2], s[3])

\* C9: whenever block time >= start, add_to_recipient, subtract_from_recipient
\* and update_recipient called by the admin or a sub-admin fail with the
\* already-started error and leave every record, to_be_collected and the
\* config unchanged.
C9_GateClosedAtStart ==
    [][\A caller \in Accounts :
          (block_timestamp >= start /\ authorise_to_update_recipient(caller) = Ok)
              => /\ GateClosedFor(caller)
                 /\ RecipientMutationBy(caller) => UNCHANGED storage]_vars

\* Block time is exactly start, a sub-admin exists, and nothing but the gate
\* stands in the way of the three calls.
C9_Witness ==
    /\ block_timestamp = start
    /\ sub_admins_mapping # {}
    /\ to_be_collected < token_balance
    /\ \E a \in DOMAIN recipients : recipients[a].total_amount > 0

\* C10: once block time has reached start, no later operation changes any
\* record's total_amount, collectable_at_tge_percentage, cliff_duration or
\* vesting_duration; only collected can change.
C10_LockedForGood ==
    [][ever_started =>
          \A a \in DOMAIN recipients :
              /\ a \in DOMAIN recipients'
              /\ recipients'[a].total_amount = recipients[a].total_amount
              /\ recipients'[a].collectable_at_tge_percentage
                     = recipients[a].collectable_at_tge_percentage
              /\ recipients'[a].cliff_duration = recipients[a].cliff_duration
              /\ recipients'[a].vesting_duration = recipients[a].vesting_duration]_vars

\* The calls of add_to_recipient, subtract_from_recipient and update_recipient
\* by caller all return Unauthorised.
RecipientMutationRefused(caller) ==
    /\ \A address \in RecipientAddresses, amount \in AmountInputs :
           /\ add_to_recipient_status(caller, address, amount) = Unauthorised
           /\ subtract_from_recipient_status(caller, address, amount) = Unauthorised
    /\ \A address \in RecipientAddresses, s \in ScheduleInputs :
           update_recipient_status(caller, address, s[1], s[2], s[3]) = Unauthorised

\* C11: add_to_recipient, subtract_from_recipient and update_recipient succeed
\* only for the current admin and the current sub-admins; for any other caller
\* they return Unauthorised and change no state, whatever the block time and
\* the arguments.
C11_RecipientMutationNeedsRole ==
    [][\A caller \in Accounts :
          (caller # admin /\ caller \notin sub_admins_mapping)
              => /\ RecipientMutationRefused(caller)
                 /\ RecipientMutationBy(caller) => UNCHANGED vars]_vars

\* The admin has been handed over, the sub-admin has been removed again, and
\* nothing but the caller check stands in the way of the three calls.
C11_Witness ==
    /\ admin # Deployer
    /\ sub_admins_mapping = {}
    /\ block_timestamp < start
    /\ to_be_collected < token_balance
    /\ \E a \in DOMAIN recipients : recipients[a].total_amount > 0

\* The calls of the five admin-only messages by caller all return Unauthorised.
AdminMessageRefused(caller) ==
    /\ \A c \in ConfigInputs :
           update_config_status(caller, c[1], c[2], c[3], c[4], c[5]) = Unauthorised
    /\ return_spare_tokens_status(caller) = Unauthorised
    /\ \A address \in Accounts :
           /\ sub_admins_add_status(caller, address) = Unauthorised
           /\ sub_admins_remove_status(caller, address) = Unauthorised
    /\ \A amount \in Balances, transferred \in BOOLEAN :
           acquire_token_status(caller, amount, transferred) = Unauthorised

\* A step that is a call of one of the five by caller.
AdminMessageBy(caller) ==
    \/ \E c \in ConfigInputs : update_config(caller, c[1], c[2], c[3], c[4], c[5])
    \/ return_spare_tokens(caller)
    \/ \E address \in Accounts :
           \/ sub_admins_add(caller, address)
           \/ sub_admins_remove(caller, address)
    \/ \E amount \in Balances, transferred \in BOOLEAN :
           acquire_token(caller, amount, transferred)

\* C12: update_config, return_spare_tokens, sub_admins_add, sub_admins_remove
\* and acquire_token succeed only for the current admin; a sub-admin, like any
\* other caller, gets Unauthorised, no token is transferred and no state
\* changes.
C12_AdminMessagesNeedAdmin ==
    [][\A caller \in Accounts :
          caller # admin
              => /\ AdminMessageRefused(caller)
                 /\ AdminMessageBy(caller) => UNCHANGED vars]_vars

\* A sub-admin exists, the contract holds spare tokens and the airdrop has not
\* started: every one of the five calls would pass for the admin.
C12_Witness ==
    /\ sub_admins_mapping # {}
    /\ \A a \in sub_admins_mapping : a # admin
    /\ token_balance > to_be_collected
    /\ block_timestamp < start
    /\ return_spare_tokens_status(admin) = Ok

\* C13: start changes only through update_config, and only to a value strictly
\* greater than the block time while to_be_collected == 0; the admin's request
\* with start <= block time or with to_be_collected > 0 is rejected and start
\* keeps its value.
C13_StartMovesOnlyUnpromised ==
    [][/\ start' # start =>
              /\ to_be_collected = 0
              /\ start' > block_timestamp
              /\ \E c \in ConfigInputs :
                     /\ c[2] = start'
                     /\ update_config(admin, c[1], c[2], c[3], c[4], c[5])
       /\ \A c \in ConfigInputs :
              c[2] # None =>
                  /\ c[2] <= block_timestamp =>
                         update_config_status(admin, c[1], c[2], c[3], c[4], c[5])
                             = "New start time must be in the future"
                  /\ (c[2] > block_timestamp /\ to_be_collected > 0) =>
                         update_config_status(admin, c[1], c[2], c[3], c[4], c[5])
                             = "to_be_collected must be zero when changing start time"
                  /\ (c[2] <= block_timestamp \/ to_be_collected > 0) =>
                         (update_config(admin, c[1], c[2], c[3], c[4], c[5])
                              => UNCHANGED start)]_vars

\* start had been reached and has been moved into the future, and an amount
\* is promised again.
C13_Witness ==
    /\ ever_started
    /\ block_timestamp < start
    /\ to_be_collected > 0

\* The configuration update_config writes to.
config == <<admin, start, default_collectable_at_tge_percentage,
            default_cliff_duration, default_vesting_duration>>

\* C14: when the admin's update_config is rejected, for a start that is not in the future,
\* for a non-zero to_be_collected or for defaults that violate a schedule
\* invariant, admin, start and the three defaults all keep their values, also
\* when earlier arguments of the call were acceptable on their own.
C14_RejectedConfigUnchanged ==
    [][\A c \in ConfigInputs :
          (/\ update_config_status(admin, c[1], c[2], c[3], c[4], c[5]) # Ok
           /\ update_config(admin, c[1], c[2], c[3], c[4], c[5]))
              => UNCHANGED config]_vars

\* The admin's call that names a new admin, acceptable on its own, is rejected
\* for its start or for its defaults.
C14_Witness ==
    /\ to_be_collected > 0
    /\ \E c \in ConfigInputs :
           /\ c[1] \notin {NoAccount, admin}
           /\ update_config_status(admin, c[1], c[2], c[3], c[4], c[5])
                  = "to_be_collected must be zero when changing start time"
    /\ \E c \in ConfigInputs :
           /\ c[1] \notin {NoAccount, admin}
           /\ update_config_status(admin, c[1], c[2], c[3], c[4], c[5])
                  = "collectable_at_tge_percentage must be less than or equal to 100"

\* C15: update_recipient replaces only the fields it is given, validates the
\* resulting record against start and the schedule invariants, and stores
\* nothing when the validation fails: the record is what it was before.
C15_UpdateRecipientAtomic ==
    [][\A caller \in {admin} \cup sub_admins_mapping,
          address \in RecipientAddresses, s \in ScheduleInputs :
          update_recipient(caller, address, s[1], s[2], s[3]) =>
              IF update_recipient_status(caller, address, s[1], s[2], s[3]) = Ok
              THEN /\ recipients' =
                          [recipients EXCEPT ![address] =
                              [total_amount |-> @.total_amount,
                               collected |-> @.collected,
                               collectable_at_tge_percentage |->
                                   IF s[1] = None
                                   THEN @.collectable_at_tge_percentage ELSE s[1],
                               cliff_duration |->
                                   IF s[2] = None THEN @.cliff_duration ELSE s[2],
                               vesting_duration |->
                                   IF s[3] = None THEN @.vesting_duration ELSE s[3]]]
                   /\ validate_airdrop_calculation_variables(
                          start,
                          recipients'[address].collectable_at_tge_percentage,
                          recipients'[address].cliff_duration,
                          recipients'[address].vesting_duration) = Ok
              ELSE UNCHANGED recipients]_vars

\* A record carries a schedule of its own, and an update of one field of it
\* would fail the validation.
C15_Witness ==
    \E a \in DOMAIN recipients :
        /\ block_timestamp < start
        /\ recipients[a].vesting_duration # default_vesting_duration
        /\ update_recipient_status(admin, a, None, None, 0)
               = "vesting_duration must be greater than 0 when collectable_tge_percentage is not 100"

\* The three schedule invariants of a percentage, a cliff and a vesting.
ScheduleValid(percentage, cliff, vesting) ==
    /\ percentage <= 100
    /\ percentage = 100 => (cliff = 0 /\ vesting = 0)
    /\ percentage < 100 => vesting > 0

\* C16: in every reachable state the defaults of the config and every stored
\* record satisfy percentage <= 100, percentage = 100 => cliff = 0 and
\* vesting = 0, percentage < 100 => vesting > 0; the constructor's validation,
\* update_config and update_recipient reject every combination that does not.
C16_SchedulesValid ==
    /\ ScheduleValid(default_collectable_at_tge_percentage,
                     default_cliff_duration, default_vesting_duration)
    /\ \A a \in DOMAIN recipients :
           ScheduleValid(recipients[a].collectable_at_tge_percentage,
                         recipients[a].cliff_duration,
                         recipients[a].vesting_duration)
    /\ \A st \in Timestamps, percentage \in Percentages \cup QueryPercentages,
          cliff \in Timestamps, vesting \in Timestamps :
           ~ScheduleValid(percentage, cliff, vesting) =>
               validate_airdrop_calculation_variables(st, percentage, cliff, vesting) # Ok
    /\ \A c \in ConfigInputs :
           ~ScheduleValid(unwrap_or(c[3], default_collectable_at_tge_percentage),
                          unwrap_or(c[4], default_cliff_duration),
                          unwrap_or(c[5], default_vesting_duration)) =>
               update_config_status(admin, c[1], c[2], c[3], c[4], c[5]) # Ok
    /\ \A a \in DOMAIN recipients, s \in ScheduleInputs :
           ~ScheduleValid(unwrap_or(s[1], recipients[a].collectable_at_tge_percentage),
                          unwrap_or(s[2], recipients[a].cliff_duration),
                          unwrap_or(s[3], recipients[a].vesting_duration)) =>
               update_recipient_status(admin, a, s[1], s[2], s[3]) # Ok

\* One record vests while the defaults release everything at start, and an
\* update that drops the record's vesting is on offer.
C16_Witness ==
    /\ default_collectable_at_tge_percentage = 100
    /\ block_timestamp < start
    /\ \E a \in DOMAIN recipients :
           /\ recipients[a].collectable_at_tge_percentage < 100
           /\ recipients[a].vesting_duration > 0
           /\ recipients[a].total_amount > 0
           /\ update_recipient_status(admin, a, None, None, 0) \notin {Ok, AirdropHasStarted}

\* C17: in every reachable state, for the defaults of the config and for every
\* stored record, start + cliff_duration + vesting_duration does not exceed
\* the maximum timestamp, also after update_config has changed start.
C17_ScheduleEndsInRange ==
    /\ start + default_cliff_duration + default_vesting_duration <= TimestampMax
    /\ \A a \in DOMAIN recipients :
           start + recipients[a].cliff_duration + recipients[a].vesting_duration
               <= TimestampMax

\* C18: after any sequence of sub_admins_add and sub_admins_remove calls the
\* list and the mapping hold the same accounts and the list has no duplicates;
\* adding a sub-admin again and removing an account that is none are rejected
\* and leave both.
C18_SubAdminsAgree ==
    /\ [](/\ Elements(sub_admins_as_vec) = sub_admins_mapping
          /\ Len(sub_admins_as_vec) = Cardinality(sub_admins_mapping)
          /\ \A address \in Accounts :
                 /\ address \in sub_admins_mapping =>
                        sub_admins_add_status(admin, address) = "Already a sub admin"
                 /\ address \notin sub_admins_mapping =>
                        sub_admins_remove_status(admin, address) = "Not a sub admin")
    /\ [][\A address \in Accounts :
             /\ (address \in sub_admins_mapping /\ sub_admins_add(admin, address))
                    => UNCHANGED <<sub_admins_as_vec, sub_admins_mapping>>
             /\ (address \notin sub_admins_mapping /\ sub_admins_remove(admin, address))
                    => UNCHANGED <<sub_admins_as_vec, sub_admins_mapping>>]_vars

\* Two sub-admins are left, in the order they were added, after one that had
\* been added before them was removed.
C18_Witness ==
    /\ Len(sub_admins_as_vec) = 2
    /\ sub_admins_as_vec[1] = "charlie"
    /\ sub_admins_as_vec[2] = "alice"
    /\ admin = "bob"

\* C19: return_spare_tokens called by the admin computes
\* spare = max(0, token balance - to_be_collected); with spare = 0 it fails
\* with "Amount is zero", otherwise it transfers exactly spare; it changes no
\* record, to_be_collected or config, and after a successful call the balance
\* equals to_be_collected.
C19_SpareIsBalanceOverPromised ==
    /\ [](return_spare_tokens_status(admin) =
              IF token_balance - to_be_collected > 0 THEN Ok ELSE AmountIsZero)
    /\ [][return_spare_tokens(admin) =>
             IF return_spare_tokens_status(admin) = Ok
             THEN /\ token_balance - token_balance' = token_balance - to_be_collected
                  /\ token_balance' = to_be_collected'
                  /\ UNCHANGED storage
             ELSE UNCHANGED <<storage, token_balance>>]_vars

\* The contract holds more than is promised, and something is promised.
C19_Witness ==
    /\ to_be_collected > 0
    /\ token_balance > to_be_collected
    /\ return_spare_tokens_status(admin) = Ok

\* C20: for the admin or a sub-admin before start, add_to_recipient(address,
\* amount) succeeds exactly when to_be_collected + amount <= the token balance
\* of the contract, equality included, and otherwise fails with "Insufficient
\* balance" (with the overflow error when the sum does not fit a Balance).
C20_AddSucceedsUpToBalance ==
    \A caller \in {admin} \cup sub_admins_mapping,
       address \in RecipientAddresses, amount \in AmountInputs :
        block_timestamp < start =>
            IF to_be_collected + amount <= token_balance
            THEN add_to_recipient_status(caller, address, amount) = Ok
            ELSE add_to_recipient_status(caller, address, amount) =
                     IF to_be_collected + amount > BalanceMax
                     THEN ToBeCollectedOverflow
                     ELSE InsufficientBalance

\* C21: subtract_from_recipient(address, amount) called by the admin before
\* start fails with NotFound on an address without record and fails when
\* amount > the record's total_amount, leaving the record and to_be_collected
\* unchanged; with amount <= total_amount (amount = total_amount included) it
\* succeeds, lowers total_amount and to_be_collected by exactly amount, and
\* the record stays stored even when its total_amount reaches 0.
C21_SubtractAtTheBoundary ==
    /\ [](\A address \in RoleRecipients, amount \in RoleAmounts :
              block_timestamp < start =>
                  subtract_from_recipient_status(admin, address, amount) =
                      IF ~HasRecipient(address) THEN NotFound
                      ELSE IF amount > recipients[address].total_amount
                      THEN AmountGreaterThanTotal
                      ELSE Ok)
    /\ [][\A address \in RoleRecipients, amount \in RoleAmounts :
              subtract_from_recipient(admin, address, amount) =>
                  IF subtract_from_recipient_status(admin, address, amount) = Ok
                  THEN /\ HasRecipient(address)'
                       /\ recipients'[address].total_amount =
                              recipients[address].total_amount - amount
                       /\ to_be_collected' = to_be_collected - amount
                  ELSE UNCHANGED <<recipients, to_be_collected>>]_vars

\* C22: a successful add_to_recipient(address, amount) stores and returns, for
\* an address without record, a record with total_amount = amount,
\* collected = 0 and the current defaults as schedule, and for an address with
\* a record that record with amount added to total_amount and its collected
\* and schedule kept; to_be_collected grows by exactly amount and no other
\* address gains, loses or changes a record.
C22_AddIsAdditive ==
    [][\A caller \in Accounts, address \in RecipientAddresses,
          amount \in AmountInputs :
           (/\ add_to_recipient(caller, address, amount)
            /\ add_to_recipient_status(caller, address, amount) = Ok) =>
               /\ recipients'[address] =
                      add_to_recipient_recipient(address, amount)
               /\ add_to_recipient_recipient(address, amount) =
                      IF HasRecipient(address)
                      THEN [total_amount |->
                                recipients[address].total_amount + amount,
                            collected |-> recipients[address].collected,
                            collectable_at_tge_percentage |->
                                recipients[address].collectable_at_tge_percentage,
                            cliff_duration |-> recipients[address].cliff_duration,
                            vesting_duration |->
                                recipients[address].vesting_duration]
                      ELSE [total_amount |-> amount,
                            collected |-> 0,
                            collectable_at_tge_percentage |->
                                default_collectable_at_tge_percentage,
                            cliff_duration |-> default_cliff_duration,
                            vesting_duration |-> default_vesting_duration]
               /\ to_be_collected' = to_be_collected + amount
               /\ DOMAIN recipients' = DOMAIN recipients \cup {address}
               /\ \A other \in DOMAIN recipients \ {address} :
                      recipients'[other] = recipients[other]]_vars

\* bob holds a record whose schedule is no longer the default one, charlie
\* holds a record as well, and a further allocation to bob is accepted.
C22_Witness ==
    /\ HasRecipient("bob") /\ HasRecipient("charlie")
    /\ recipients["bob"].total_amount = 1
    /\ recipients["bob"].collectable_at_tge_percentage #
           default_collectable_at_tge_percentage
    /\ add_to_recipient_status(admin, "bob", 1) = Ok

\* C23: the queries show, config and collectable_amount change nothing of the
\* airdrop contract, so that each of them, asked again, returns what it
\* returned before; show and collectable_amount fail with NotFound for an
\* address that has no record (records are never deleted, so: that was never
\* allocated to).
C23_QueriesChangeNothing ==
    /\ [](\A address \in Accounts :
              ~HasRecipient(address) =>
                  /\ show_status(address) = NotFound
                  /\ \A timestamp \in Timestamps :
                         collectable_amount_status(address, timestamp) = NotFound)
    /\ [][/\ config_message =>
                 /\ UNCHANGED <<storage, token_balance, block_timestamp>>
                 /\ config_returns' = config_returns
          /\ \A address \in Accounts :
                 /\ show(address) =>
                        /\ UNCHANGED <<storage, token_balance, block_timestamp>>
                        /\ show_returns(address)' = show_returns(address)
                 /\ \A timestamp \in Timestamps :
                        collectable_amount(address, timestamp) =>
                            /\ UNCHANGED <<storage, token_balance,
                                           block_timestamp>>
                            /\ collectable_amount_returns(address, timestamp)' =
                                   collectable_amount_returns(address, timestamp)
         ]_vars

\* show has just answered NotFound for charlie while bob holds a record that
\* has been collected from.
C23_Witness ==
    /\ "address" \in DOMAIN queried /\ "recipient" \in DOMAIN queried
    /\ queried.address = "charlie" /\ queried.status = NotFound
    /\ HasRecipient("bob") /\ recipients["bob"].collected > 0
    /\ ~HasRecipient("charlie")

\* C24: the constructor of the sale contract rejects every parameter set with
\* start + whitelist_duration >= end, with in_unit, out_unit or in_target
\* zero, or with in_target not a multiple of in_unit, and accepts every
\* other; the contract it instantiates has in_raised = 0, no buyers, the
\* caller as admin and the parameters as given, and a rejected call
\* instantiates nothing.
C24_NewValidates ==
    /\ [](\A in_unit \in Balances, out_unit \in Balances,
             st \in Timestamps, end \in Timestamps,
             whitelist_duration \in Timestamps, in_target \in Balances :
              (sale_new_status(in_unit, out_unit, st, end,
                               whitelist_duration, in_target) = Ok)
              <=> (/\ st + whitelist_duration < end
                   /\ in_unit > 0 /\ out_unit > 0 /\ in_target > 0
                   /\ in_target % in_unit = 0))
    /\ [][\A caller \in Accounts, p \in SaleNewInputs :
              sale_new(caller, AirdropContract,
                       p[1], p[2], p[3], p[4], p[5], p[6]) =>
                  IF sale_new_status(p[1], p[2], p[3], p[4], p[5], p[6]) = Ok
                  THEN /\ sale'.admin = caller
                       /\ sale'.in_raised = 0
                       /\ sale'.buyers = <<>>
                       /\ <<sale'.in_unit, sale'.out_unit, sale'.start, sale'.end,
                            sale'.whitelist_duration, sale'.in_target>> = p
                  ELSE sale' = NoSale]_vars

\* bob has instantiated a sale with a whitelist phase.
C24_Witness ==
    /\ sale.admin = "bob"
    /\ sale.whitelist_duration > 0
    /\ sale.in_raised = 0
    /\ sale.in_target = 2 /\ sale.in_unit = 1

\* C25: buy is rejected with the error of the first check that fails, in the
\* order: block time < start ("Sale has not started"); block time > end ("Sale
\* has ended", block time = end being inside the sale); caller not whitelisted
\* in the whitelist phase; transferred value zero or not a multiple of
\* in_unit; in_raised = in_target ("Sold out").  A call that passes the five
\* checks gets none of these errors, and a rejected call changes nothing of
\* the sale contract.
C25_BuyChecksInOrder ==
    /\ [](\A caller \in SaleBuyers, value \in Balances :
              IF block_timestamp < sale.start
              THEN buy_status(caller, value) = SaleHasNotStarted
              ELSE IF block_timestamp > sale.end
              THEN buy_status(caller, value) = SaleHasEnded
              ELSE IF /\ sale.whitelist_duration > 0
                      /\ block_timestamp < sale.start + sale.whitelist_duration
                      /\ ~sale_show(caller).whitelisted
              THEN buy_status(caller, value) = SaleWhitelistOnly
              ELSE IF value = 0 \/ value % sale.in_unit # 0
              THEN buy_status(caller, value) = SaleNotInUnits
              ELSE IF sale.in_raised = sale.in_target
              THEN buy_status(caller, value) = SoldOut
              ELSE buy_status(caller, value) \notin
                       {SaleHasNotStarted, SaleHasEnded, SaleWhitelistOnly,
                        SaleNotInUnits, SoldOut})
    /\ [][\A caller \in SaleBuyers, value \in Balances :
              buy(caller, value) /\ buy_status(caller, value) # Ok
                  => UNCHANGED <<sale, azero, recipients, to_be_collected>>]_vars

\* The sale is sold out and over, at its last moment and after it.
C25_Witness ==
    /\ sale.in_raised = sale.in_target
    /\ block_timestamp > sale.end
    /\ buy_status("bob", 0) = SaleHasEnded

\* C26: during the sale, buy refuses a caller for not being whitelisted
\* exactly while whitelist_duration > 0 and
\* start <= block time < start + whitelist_duration; after that phase, and in
\* a sale with whitelist_duration = 0, the whitelist plays no part: a caller
\* that is not whitelisted gets what a whitelisted caller gets.
C26_WhitelistPhase ==
    \A caller \in SaleBuyers, value \in Balances :
        /\ buy_status(caller, value) = SaleWhitelistOnly
               <=> /\ sale.whitelist_duration > 0
                   /\ sale.start <= block_timestamp
                   /\ block_timestamp < sale.start + sale.whitelist_duration
                   /\ ~sale_show(caller).whitelisted
        /\ (/\ sale.start <= block_timestamp
            /\ \/ sale.whitelist_duration = 0
               \/ block_timestamp >= sale.start + sale.whitelist_duration)
               => \A other \in SaleBuyers :
                      (/\ azero[other] = azero[caller]
                       /\ sale_show(other).total_in = sale_show(caller).total_in
                       /\ HasRecipient(other) = HasRecipient(caller))
                          => (buy_status(other, value) = Ok
                                  <=> buy_status(caller, value) = Ok)

\* The whitelist phase of the sale is over and bob, who is not whitelisted,
\* (while charlie is) can buy.
C26_Witness ==
    /\ sale.whitelist_duration > 0
    /\ block_timestamp >= sale.start + sale.whitelist_duration
    /\ ~sale_show("bob").whitelisted
    /\ sale_show("charlie").whitelisted
    /\ buy_status("bob", 1) = Ok

\* C27: whitelist_add and whitelist_remove called by anyone but the admin of
\* the sale fail with Unauthorised; called by the admin, whitelist_add fails
\* with "Already on whitelist" for a whitelisted address and otherwise sets
\* whitelisted, whitelist_remove fails with "Not on whitelist" for an address
\* that is not whitelisted and otherwise clears whitelisted.  A failing call
\* changes nothing; a successful one changes neither the address's total_in,
\* nor in_raised, nor any other buyer.
C27_WhitelistEdits ==
    /\ [](\A caller \in Accounts, address \in SaleBuyers :
              /\ whitelist_add_status(caller, address) =
                     IF caller # sale.admin THEN Unauthorised
                     ELSE IF sale_show(address).whitelisted
                     THEN AlreadyOnWhitelist
                     ELSE Ok
              /\ whitelist_remove_status(caller, address) =
                     IF caller # sale.admin THEN Unauthorised
                     ELSE IF ~sale_show(address).whitelisted
                     THEN NotOnWhitelist
                     ELSE Ok)
    /\ [][\A caller \in Accounts, address \in SaleBuyers :
              /\ whitelist_add(caller, address) =>
                     IF whitelist_add_status(caller, address) = Ok
                     THEN /\ sale_show(address)' =
                                 [total_in |-> sale_show(address).total_in,
                                  whitelisted |-> TRUE]
                          /\ sale_config' = sale_config
                          /\ \A other \in SaleBuyers \ {address} :
                                 sale_show(other)' = sale_show(other)
                     ELSE UNCHANGED sale
              /\ whitelist_remove(caller, address) =>
                     IF whitelist_remove_status(caller, address) = Ok
                     THEN /\ sale_show(address)' =
                                 [total_in |-> sale_show(address).total_in,
                                  whitelisted |-> FALSE]
                          /\ sale_config' = sale_config
                          /\ \A other \in SaleBuyers \ {address} :
                                 sale_show(other)' = sale_show(other)
                     ELSE UNCHANGED sale]_vars

\* bob has bought and is whitelisted, charlie has bought and is not: the
\* admin can take bob off and put charlie on, and charlie cannot do either.
C27_Witness ==
    /\ sale_show("bob").total_in > 0 /\ sale_show("bob").whitelisted
    /\ sale_show("charlie").total_in > 0 /\ ~sale_show("charlie").whitelisted
    /\ whitelist_remove_status(sale.admin, "bob") = Ok
    /\ whitelist_add_status(sale.admin, "charlie") = Ok
    /\ whitelist_add_status("charlie", "charlie") = Unauthorised

\* What is left to raise, as a Balance.
C28_Taken(value) ==
    IF value < sale.in_target - sale.in_raised
    THEN value
    ELSE sale.in_target - sale.in_raised

\* C28: a successful buy with transferred value v takes
\* in_amount = min(v, in_target - in_raised) and gives v - in_amount back to
\* the caller, has the airdrop contract add
\* out_amount = in_amount * out_unit / in_unit to the caller's record, passes
\* in_amount of native currency on to the admin of the sale, raises in_raised
\* and the caller's total_in by in_amount, and returns (in_amount, out_amount).
C28_BuyEffects ==
    [][\A caller \in SaleBuyers, value \in Balances :
           (buy(caller, value) /\ buy_status(caller, value) = Ok) =>
               LET taken == C28_Taken(value)
                   out == (taken * sale.out_unit) \div sale.in_unit
                   before == IF HasRecipient(caller)
                             THEN recipients[caller].total_amount ELSE 0
               IN  /\ buy_returns(value) = <<taken, out>>
                   /\ refund_amount(value) = value - taken
                   /\ azero'[caller] = azero[caller] - value + (value - taken)
                   /\ azero'[sale.admin] = azero[sale.admin] + taken
                   /\ azero'[SaleContract] = azero[SaleContract]
                   /\ recipients'[caller].total_amount = before + out
                   /\ to_be_collected' = to_be_collected + out
                   /\ sale'.in_raised = sale.in_raised + taken
                   /\ sale_show(caller)'.total_in =
                          sale_show(caller).total_in + taken
                   /\ sale_show(caller)'.whitelisted =
                          sale_show(caller).whitelisted]_vars

\* bob can buy the last unit of a sale while transferring two: one is taken,
\* one comes back.
C28_Witness ==
    /\ sale.in_raised > 0
    /\ sale.in_target - sale.in_raised = 1
    /\ buy_status("bob", 2) = Ok
    /\ refund_amount(2) = 1

\* C29: with the sale contract as the only caller of add_to_recipient (a
\* sub-admin of the airdrop contract while it sells), after any sequence of
\* buy calls every buyer's total_amount on the airdrop contract is the buyer's
\* total_in * out_unit / in_unit, to_be_collected of the airdrop contract is
\* in_raised * out_unit / in_unit, and a buy is accepted only strictly before
\* the start of the airdrop.
C29_SaleMirrorsAirdrop ==
    /\ \A buyer \in SaleBuyers :
           (IF HasRecipient(buyer) THEN recipients[buyer].total_amount ELSE 0)
               = (sale_show(buyer).total_in * sale.out_unit) \div sale.in_unit
    /\ to_be_collected = (sale.in_raised * sale.out_unit) \div sale.in_unit
    /\ \A caller \in SaleBuyers, value \in Balances :
           buy_status(caller, value) = Ok
               => /\ block_timestamp < start
                  /\ SaleContract \in sub_admins_mapping

\* bob has bought at a price other than one for one, the sale is sold out and
\* the airdrop has started.
C29_Witness ==
    /\ sale.in_unit # sale.out_unit
    /\ sale_show("bob").total_in > 0
    /\ sale.in_raised = sale.in_target
    /\ to_be_collected > 0
    /\ block_timestamp >= start

\* C30: burn(account, amount) of the token called by account itself lowers
\* the balance of account by amount, or fails with InsufficientBalance;
\* called by somebody else it fails with InsufficientAllowance when the
\* caller's allowance is below amount, whatever the balance, and otherwise
\* lowers allowance and balance by amount or fails with InsufficientBalance.
\* A burn that fails leaves balance and allowance as they were.
C30_Burn ==
    /\ [](\A caller \in Accounts, account \in Accounts, amount \in Balances :
              burn_status(caller, account, amount) =
                  IF caller = account
                  THEN IF psp22.balances[account] >= amount
                       THEN Ok ELSE PSP22InsufficientBalance
                  ELSE IF allowance(account, caller) < amount
                  THEN PSP22InsufficientAllowance
                  ELSE IF psp22.balances[account] >= amount
                  THEN Ok ELSE PSP22InsufficientBalance)
    /\ [][\A caller \in Accounts, account \in Accounts, amount \in Balances :
              burn(caller, account, amount) =>
                  IF burn_status(caller, account, amount) = Ok
                  THEN /\ psp22'.balances[account] =
                              psp22.balances[account] - amount
                       /\ \A other \in Accounts \ {account} :
                              psp22'.balances[other] = psp22.balances[other]
                       /\ allowance(account, caller)' =
                              IF caller = account
                              THEN allowance(account, caller)
                              ELSE allowance(account, caller) - amount
                  ELSE UNCHANGED psp22]_vars

\* alice may spend two of bob's tokens and bob holds one: burning one works,
\* burning two fails on the balance, and charlie, without allowance, fails on
\* the allowance.
C30_Witness ==
    /\ allowance("bob", "alice") = 2
    /\ psp22.balances["bob"] = 1
    /\ burn_status("alice", "bob", 1) = Ok
    /\ burn_status("alice", "bob", 2) = PSP22InsufficientBalance
    /\ burn_status("charlie", "bob", 2) = PSP22InsufficientAllowance

\* C31: for every record with collected < total_amount, at any block time >=
\* start + cliff_duration + vesting_duration a collect by its recipient
\* succeeds (the contract holds the tokens) and pays total_amount - collected,
\* which leaves collected = total_amount.
C31_CollectableInFull ==
    \A address \in DOMAIN recipients :
        (/\ recipients[address].collected < recipients[address].total_amount
         /\ block_timestamp >= start + recipients[address].cliff_duration
                                     + recipients[address].vesting_duration)
            => /\ collect_status(address) = Ok
               /\ collect_amount(address) =
                      recipients[address].total_amount
                          - recipients[address].collected

\* The sum over the records of addresses in recs of collected.
RECURSIVE CollectedIn(_, _)
CollectedIn(recs, addresses) ==
    IF addresses = {} THEN 0
    ELSE LET a == CHOOSE x \in addresses : TRUE
         IN  recs[a].collected + CollectedIn(recs, addresses \ {a})

C33_AdditionsNeverOverflow ==
    \A caller \in Accounts, address \in RecipientAddresses, amount \in AmountInputs :
        /\ (/\ authorise_to_update_recipient(caller) = Ok
            /\ airdrop_has_not_started(block_timestamp, start) = Ok
            /\ to_be_collected + amount > BalanceMax)
               => add_to_recipient_status(caller, address, amount)
                      = ToBeCollectedOverflow
        /\ add_to_recipient_status(caller, address, amount) # Trapped

C35_Collected(recs, address) ==
    IF address \in DOMAIN recs THEN recs[address].collected ELSE 0

\* C35: the collected of every record never decreases, changes only in a
\* successful collect called by that recipient, and right after that collect
\* it is at most what the record has unlocked at that block time.
C35_CollectedOnlyGrowsByCollect ==
    [][\A address \in RecipientAddresses :
           /\ C35_Collected(recipients', address) >= C35_Collected(recipients, address)
           /\ C35_Collected(recipients', address) # C35_Collected(recipients, address)
                  => /\ collect_status(address) = Ok
                     /\ collect(address)
                     /\ C35_Collected(recipients', address)
                            <= total_collectable_at_time(recipients'[address],
                                                         start', block_timestamp')]_vars

\* A record that vests over time, with a part released at start, has been
\* collected in full.
C35_Witness ==
    \E address \in DOMAIN recipients :
        /\ recipients[address].collected = recipients[address].total_amount
        /\ recipients[address].collected > 1
        /\ recipients[address].vesting_duration > 0
        /\ recipients[address].collectable_at_tge_percentage > 0

\* C36: collect acts on the caller's own entitlement only: its transfer goes
\* to the caller and takes the transferred amount from the contract's balance;
\* it changes the caller's collected and to_be_collected and nothing else:
\* every other record, the caller's total_amount and schedule, the admin, the
\* sub-admins, start and the defaults stay; a caller without a record gets
\* NotFound and nothing is transferred.
C36_CollectTouchesOnlyCaller ==
    [][\A caller \in Accounts :
           collect(caller) =>
               IF ~HasRecipient(caller)
               THEN collect_status(caller) = NotFound /\ UNCHANGED vars
               ELSE IF collect_status(caller) = Ok
               THEN /\ collect_transfer(caller).to = caller
                    /\ collect_transfer(caller).value > 0
                    /\ token_balance' = token_balance - collect_transfer(caller).value
                    /\ DOMAIN recipients' = DOMAIN recipients
                    /\ \A address \in DOMAIN recipients \ {caller} :
                           recipients'[address] = recipients[address]
                    /\ recipients'[caller] =
                           [recipients[caller] EXCEPT
                              !.collected = @ + collect_transfer(caller).value]
                    /\ to_be_collected' <= to_be_collected
                    /\ UNCHANGED <<admin, sub_admins_mapping, sub_admins_as_vec,
                                   start, default_collectable_at_tge_percentage,
                                   default_cliff_duration, default_vesting_duration,
                                   block_timestamp, other_contracts>>
               ELSE UNCHANGED vars]_vars

\* A recipient has collected a part of a vesting record while another
\* recipient is still owed, with a sub-admin in place and an account without
\* a record.
C36_Witness ==
    /\ sub_admins_mapping # {}
    /\ \E a, b \in DOMAIN recipients :
           /\ a # b
           /\ recipients[a].collected > 0
           /\ recipients[a].collected < recipients[a].total_amount
           /\ recipients[b].total_amount > recipients[b].collected
    /\ \E caller \in Accounts : collect_status(caller) = NotFound

\* The sum of total_in over the buyers in addresses.
RECURSIVE C37_TotalIn(_)
C37_TotalIn(addresses) ==
    IF addresses = {} THEN 0
    ELSE LET a == CHOOSE x \in addresses : TRUE
         IN  sale.buyers[a].total_in + C37_TotalIn(addresses \ {a})

\* C37 as stated: in every reachable state of the sale contract
\* in_raised <= in_target, in_raised is a multiple of in_unit and in_raised is
\* the sum of total_in over the buyers; once in_raised == in_target every
\* further buy fails with "Sold out" and in_raised never changes again.
C37_SoldOutIsTheError ==
    /\ [](/\ sale.in_raised <= sale.in_target
          /\ sale.in_raised % sale.in_unit = 0
          /\ sale.in_raised = C37_TotalIn(DOMAIN sale.buyers)
          /\ sale.in_raised = sale.in_target =>
                 \A caller \in SaleBuyers, value \in Balances :
                     buy_status(caller, value) = SoldOut)
    /\ [][sale.in_raised = sale.in_target => sale'.in_raised = sale.in_raised]_vars

\* C37, amended: in every reachable state of the sale contract
\* in_raised <= in_target, in_raised is a multiple of in_unit and in_raised is
\* the sum of total_in over the buyers; once in_raised == in_target every
\* further buy fails, with "Sold out" when it passes the checks that come
\* before (the sale window, the whitelist, the units of the transferred value)
\* and with the error of the first of those otherwise, and in_raised never
\* changes again.
C37_SaleTotals ==
    /\ [](/\ sale.in_raised <= sale.in_target
          /\ sale.in_raised % sale.in_unit = 0
          /\ sale.in_raised = C37_TotalIn(DOMAIN sale.buyers)
          /\ sale.in_raised = sale.in_target =>
                 \A caller \in SaleBuyers, value \in Balances :
                     /\ buy_status(caller, value) \in
                            {SaleHasNotStarted, SaleHasEnded, SaleWhitelistOnly,
                             SaleNotInUnits, SoldOut}
                     /\ (/\ block_timestamp >= sale.start
                         /\ block_timestamp <= sale.end
                         /\ (whitelist_applies => sale_show(caller).whitelisted)
                         /\ value > 0
                         /\ value % sale.in_unit = 0)
                            => buy_status(caller, value) = SoldOut)
    /\ [][sale.in_raised = sale.in_target => sale'.in_raised = sale.in_raised]_vars

\* Two buyers have bought the sale out between them, and the sale is still
\* open to a buy in units.
C37_Witness ==
    /\ sale.in_raised = sale.in_target
    /\ \A a \in SaleBuyers : sale_show(a).total_in > 0
    /\ buy_status("bob", sale.in_unit) = SoldOut

\* buy has passed its own five checks.
C38_PastTheChecks(caller, value) ==
    buy_status(caller, value) \notin
        {SaleHasNotStarted, SaleHasEnded, SaleWhitelistOnly, SaleNotInUnits, SoldOut}

RECURSIVE C39_Owed(_)
C39_Owed(addresses) ==
    IF addresses = {} THEN 0
    ELSE LET a == CHOOSE x \in addresses : TRUE
         IN  saturating_sub(recipients[a].total_amount, recipients[a].collected)
             + C39_Owed(addresses \ {a})

\* C39: under any interleaving of the airdrop's messages with block time
\* advancing, update_config moving start to the future after everything was
\* collected and allocations and deallocations after it included, the
\* contract's token balance is at least the sum over the records of
\* max(0, total_amount - collected): return_spare_tokens never leaves the
\* contract with less than the recipients are owed.
C39_BalanceCoversOwed == token_balance >= C39_Owed(DOMAIN recipients)

\* C40: update_config changes no recipient record, not to_be_collected and not
\* the sub-admins; after an accepted call a record created next gets the new
\* defaults while the existing records keep their schedule, and when the call
\* names a new admin, the admin-only messages accept exactly that account from
\* then on: the previous admin is rejected.
C40_UpdateConfigFrame ==
    [][\A caller \in Accounts, c \in ConfigInputs :
           update_config(caller, c[1], c[2], c[3], c[4], c[5]) =>
               /\ UNCHANGED <<recipients, to_be_collected, sub_admins_mapping,
                              sub_admins_as_vec, token_balance>>
               /\ update_config_status(caller, c[1], c[2], c[3], c[4], c[5]) = Ok =>
                      /\ NewRecipient' =
                             [total_amount |-> 0,
                              collected |-> 0,
                              collectable_at_tge_percentage |->
                                  unwrap_or(c[3], default_collectable_at_tge_percentage),
                              cliff_duration |-> unwrap_or(c[4], default_cliff_duration),
                              vesting_duration |->
                                  unwrap_or(c[5], default_vesting_duration)]
                      /\ \A address \in RecipientAddresses \ DOMAIN recipients :
                             recipient_or_new(address)' = NewRecipient'
                      /\ c[1] # NoAccount =>
                             \A a \in Accounts :
                                 /\ (authorise(a, admin') = Ok) <=> (a = c[1])
                                 /\ (update_config_status(a, NoAccount, None, None,
                                                          None, None)' = Unauthorised)
                                        <=> (a # c[1])
                                 /\ (return_spare_tokens_status(a)' = Unauthorised)
                                        <=> (a # c[1])
                                 /\ \A sub \in SubAdminCandidates :
                                        /\ (sub_admins_add_status(a, sub)'
                                                = Unauthorised) <=> (a # c[1])
                                        /\ (sub_admins_remove_status(a, sub)'
                                                = Unauthorised) <=> (a # c[1])]_vars

\* The admin has been replaced, a sub-admin is in place, and the record that
\* exists has a schedule that is not the current default.
C40_Witness ==
    /\ admin # Deployer
    /\ sub_admins_mapping # {}
    /\ to_be_collected > 0
    /\ \E address \in DOMAIN recipients :
           recipients[address].collectable_at_tge_percentage
               # default_collectable_at_tge_percentage

====
